---- MODULE Spec2Model ----
(***************************************************************************)
(* Adaptive quality controller of the conferencing client                  *)
(* (src/unnamed/part_002): the monitoring cycle, the per-link classifier,  *)
(* the global adaptation rule table, the application of a quality to the   *)
(* outbound video senders, and the user actions that run concurrently with *)
(* them (join, leave, adaptive-mode toggle, peers coming and going); the   *)
(* signaling of the client (offers, answers, reconnects and their timers)  *)
(* and the signaling server (src/public/script_enhanced.js).               *)
(*                                                                         *)
(* Async functions are cut at their awaits: what runs between two awaits   *)
(* is one atomic action, and a function suspended at an await is a record  *)
(* in `tasks`.                                                             *)
(*                                                                         *)
(* The specifications share the variables:                                 *)
(*   Spec         the whole client, measurements drawn from three          *)
(*                profiles;                                                *)
(*   SpecAdapt    monitoring cycles alone, measurements drawn from every   *)
(*                band of loss, rtt and bitrate the code distinguishes;    *)
(*   SpecAnalyze  analyzeStats on raw getStats counters, exact fractions;  *)
(*   SpecClassify the verdict of analyzeStats at the band boundaries;      *)
(*   SpecMedia    the whole client with the microphone and camera buttons; *)
(*   SpecOverlap  the monitoring timer against the runs it has started;    *)
(*   SpecSpeaker  active-speaker detection over the audio levels;          *)
(*   SpecApply    monitoring cycles over senders that expose an encoding;  *)
(*   SpecTiers    the active-speaker tiers against the monitoring cycle;   *)
(*   SpecSample   monitoring cycles in which getStats can be rejected;     *)
(*   SpecRecover  monitoring cycles over healthy links, under fairness;    *)
(*   SpecEarly    analyzeStats on short windows, with the clock;           *)
(*   SpecFirst    monitoring cycles, the first snapshot of a link apart;   *)
(*   SpecSteady   monitoring cycles under measurements that do not change; *)
(*   SpecSignal   the signaling of the client with one remote participant; *)
(*   SpecPresence active-speaker detection with the participants map;      *)
(*   SpecServer   the rooms and users of the signaling server.             *)
(* A specification that does not follow the signaling or the server holds  *)
(* their variables at the initial values.                                  *)
(***************************************************************************)
EXTENDS Integers, FiniteSets, Sequences, TLC

\* ------------------------------------------------------------------------
\* Bounds of the model
\* ------------------------------------------------------------------------
\* async functions (monitoring cycles, quality adjustments) in flight at once
MaxTasks == 1
\* the clock does not advance beyond this (milliseconds)
MaxNow == 12000
\* the clock of the sessions in which the audio levels are followed
MaxSpeakerNow == 2000
\* runs of monitorNetworkQuality suspended at the same time where the timer is
\* followed on its own
MaxOverlap == 2

\* ------------------------------------------------------------------------
\* Program constants
\* ------------------------------------------------------------------------
\* setInterval(monitorNetworkQuality, 3000)
MonitorIntervalMs == 3000
\* (Date.now() - connectionStartTime) > 10000
GracePeriodMs == 10000
\* BANDWIDTH_THRESHOLDS.LOW / .MEDIUM and the literal audio-only floor
BANDWIDTH_LOW == 150000
BANDWIDTH_MEDIUM == 500000
AudioOnlyFloor == 60000
\* Math.min(50, Math.max(0, loss))
LossCap == 50
\* the quantum by which the clock advances: four monitoring periods, which
\* takes a session from inside the grace period to beyond it
TickMs == 4 * MonitorIntervalMs
\* AUDIO_LEVEL_THRESHOLD = 0.01, audio levels being counted in hundredths
AUDIO_LEVEL_THRESHOLD == 1
\* the age from which updateActiveSpeaker ignores an audio level
StaleAfterMs == 2000

Peers == {"A", "B"}
Qualities == {"AUDIO_ONLY", "LOW", "MEDIUM", "HIGH"}

\* a Map without entries
EmptyMap == [p \in {} |-> 0]

\* connectionStartTime is null or a timestamp
Null == <<>>
Some(t) == <<t>>

Max(a, b) == IF a >= b THEN a ELSE b

\* ------------------------------------------------------------------------
\* Inputs of the environment: what analyzeStats measures on one link
\* ------------------------------------------------------------------------
\* losses in percent after the final cap, rtt in milliseconds, totalBitrate =
\* videoBitrate + audioBitrate in bits per second: a healthy link, a link
\* with moderate loss and delay, a broken link
Samples ==
  {[videoPacketLoss |-> 0, audioPacketLoss |-> 0, rtt |-> 50, totalBitrate |-> 800000],
   [videoPacketLoss |-> 5, audioPacketLoss |-> 0, rtt |-> 300, totalBitrate |-> 800000],
   [videoPacketLoss |-> 0, audioPacketLoss |-> 20, rtt |-> 4000, totalBitrate |-> 0]}
\* what `await pc.getStats()` followed by analyzeStats can give: the promise
\* rejects, the report holds no rtp entry (analyzeStats returns null), or metrics
NoSample == [videoPacketLoss |-> 0, audioPacketLoss |-> 0, rtt |-> 0, totalBitrate |-> 0]
StatsOutcomes ==
  {[ok |-> FALSE, some |-> FALSE, m |-> NoSample], [ok |-> TRUE, some |-> FALSE, m |-> NoSample]}
  \cup {[ok |-> TRUE, some |-> TRUE, m |-> s] : s \in Samples}

VARIABLES
  localStream,               \* TRUE while a local media stream exists
  isCameraOff,               \* the user's camera setting
  videoTrackEnabled,         \* enabled flag of the local video track every sender shares
  peerConnections,           \* keys of the peerConnections map
  networkStats,              \* the networkStats map: peer id -> metrics
  networkStatsRaw,           \* of the same entries, the raw counters kept for the next
                             \* comparison and the loss computed from them; followed
                             \* where analyzeStats runs on raw reports (SpecAnalyze)
  currentVideoQuality,
  isAdaptiveMode,
  networkMonitoringInterval, \* TRUE while the monitoring timer is set
  initialConnectionPhase,
  connectionStartTime,
  now,                       \* Date.now()
  isMicMuted,                \* the user's microphone setting
  audioTrackEnabled,         \* enabled flag of the local audio track
  activeSpeaker,             \* Null or Some(participant id)
  audioLevels,               \* the audioLevels map: participant id -> level, timestamp
  activeSpeakerInterval,     \* TRUE while the active-speaker timer is set
  encodings,                 \* per peer connection, encodings[0] of the parameters of
                             \* its video sender: Null where the browser gives none
  tasks,                     \* async functions suspended at an await
  participants,              \* keys of the participants map, 'local' left out
  connections,               \* every RTCPeerConnection created so far
  pendingCalls,              \* timers set, messages in flight, signaling awaits
  users,                     \* server: the users map, socket -> room of the user
  rooms,                     \* server: the rooms map, room -> sockets
  sent,                      \* server: what the last handler run has sent
  readyState                 \* server: readyState of every socket accepted so far

vars == <<localStream, isCameraOff, videoTrackEnabled, peerConnections, networkStats,
          networkStatsRaw,
          currentVideoQuality, isAdaptiveMode, networkMonitoringInterval,
          initialConnectionPhase, connectionStartTime, now, tasks,
          isMicMuted, audioTrackEnabled, activeSpeaker, audioLevels,
          activeSpeakerInterval, encodings,
          participants, connections, pendingCalls, users, rooms, sent, readyState>>

\* the signaling of the client, the signaling server
signalVars == <<participants, connections, pendingCalls>>
serverVars == <<users, rooms, sent, readyState>>

\* nothing signalled yet, nobody connected to the server; the specifications
\* that follow the keys of peerConnections alone hold these variables here
SignalingIdle == participants = {} /\ connections = {} /\ pendingCalls = {}
ServerIdle == users = EmptyMap /\ rooms = EmptyMap /\ sent = {} /\ readyState = EmptyMap

\* the microphone, the active-speaker detection
mediaVars == <<isMicMuted, audioTrackEnabled>>
speakerVars == <<activeSpeaker, audioLevels, activeSpeakerInterval>>

\* ------------------------------------------------------------------------
\* analyzeStats: the per-link verdict
\* ------------------------------------------------------------------------
\* variant: a low bitrate lowers the verdict below the audio-only floor too
ClassifyMetrics_NoFloor(totalPacketLoss, rtt, totalBitrate) ==
  IF rtt > 500 \/ totalPacketLoss > 15 THEN "AUDIO_ONLY"
  ELSE IF totalPacketLoss > 8 \/ rtt > 400 \/ totalBitrate < BANDWIDTH_LOW THEN "LOW"
  ELSE IF totalPacketLoss > 3 \/ rtt > 200 \/ totalBitrate < BANDWIDTH_MEDIUM THEN "MEDIUM"
  ELSE IF totalPacketLoss < 2 /\ rtt < 150 THEN "HIGH"
  ELSE "MEDIUM"

\* the if / else-if chain of analyzeStats outside the initial phase (lines 597-615)
ClassifyMetrics(totalPacketLoss, rtt, totalBitrate) ==
  IF rtt > 500 \/ totalPacketLoss > 15 THEN "AUDIO_ONLY"
  ELSE IF totalPacketLoss > 8 \/ rtt > 400
          \/ (totalBitrate < BANDWIDTH_LOW /\ totalBitrate > AudioOnlyFloor) THEN "LOW"
  ELSE IF totalPacketLoss > 3 \/ rtt > 200
          \/ (totalBitrate < BANDWIDTH_MEDIUM /\ totalBitrate > AudioOnlyFloor) THEN "MEDIUM"
  ELSE IF totalPacketLoss < 2 /\ rtt < 150 THEN "HIGH"
  ELSE "MEDIUM"

\* variant: the verdict is computed during the initial connection phase too
LinkQuality_NoGrace(phase, m) ==
  ClassifyMetrics(Max(m.videoPacketLoss, m.audioPacketLoss), m.rtt, m.totalBitrate)

\* metrics.quality as analyzeStats sets it (lines 587-616)
LinkQuality(phase, m) ==
  IF phase THEN "HIGH"
  ELSE ClassifyMetrics(Max(m.videoPacketLoss, m.audioPacketLoss), m.rtt, m.totalBitrate)

\* the record analyzeStats returns and monitorNetworkQuality stores
MetricsOf(phase, m) ==
  [videoPacketLoss |-> m.videoPacketLoss, audioPacketLoss |-> m.audioPacketLoss,
   rtt |-> m.rtt, quality |-> LinkQuality(phase, m)]

\* ------------------------------------------------------------------------
\* adaptToNetworkConditions: aggregation over networkStats and the rule table
\* ------------------------------------------------------------------------
\* variant: the entry visited last overwrites the aggregate
FoldStep_LastLink(acc, m) ==
  [maxPacketLoss |-> Max(m.videoPacketLoss, m.audioPacketLoss),
   maxRtt |-> m.rtt,
   peerCount |-> acc.peerCount + 1,
   worstQuality |-> m.quality]

\* the callback of networkStats.forEach (lines 637-647) on one entry m
FoldStep(acc, m) ==
  [maxPacketLoss |-> Max(acc.maxPacketLoss, Max(m.videoPacketLoss, m.audioPacketLoss)),
   maxRtt |-> Max(acc.maxRtt, m.rtt),
   peerCount |-> acc.peerCount + 1,
   worstQuality |->
     IF m.quality = "AUDIO_ONLY" THEN "AUDIO_ONLY"
     ELSE IF m.quality = "LOW" /\ acc.worstQuality # "AUDIO_ONLY" THEN "LOW"
     ELSE IF m.quality = "MEDIUM" /\ acc.worstQuality = "HIGH" THEN "MEDIUM"
     ELSE acc.worstQuality]

RECURSIVE FoldStats(_, _, _)
\* networkStats.forEach over the entries in `todo`
FoldStats(stats, todo, acc) ==
  IF todo = {} THEN acc
  ELSE LET p == CHOOSE x \in todo : TRUE
       IN FoldStats(stats, todo \ {p}, FoldStep(acc, stats[p]))

\* the locals of adaptToNetworkConditions after the loop (lines 630-647)
Aggregate(stats) ==
  FoldStats(stats, DOMAIN stats,
            [maxPacketLoss |-> 0, maxRtt |-> 0, peerCount |-> 0, worstQuality |-> "HIGH"])

\* variant: only the verdicts of the links call for audio-only
TargetQuality_VerdictOnly(current, worstQuality, maxPacketLoss, maxRtt) ==
  IF worstQuality = "AUDIO_ONLY" THEN "AUDIO_ONLY"
  ELSE IF current = "AUDIO_ONLY" /\ maxPacketLoss <= 10 /\ maxRtt <= 1000 THEN "LOW"
  ELSE IF worstQuality = "LOW" \/ maxPacketLoss > 8 \/ maxRtt > 500
       THEN (IF current # "AUDIO_ONLY" THEN "LOW" ELSE current)
  ELSE IF worstQuality = "MEDIUM" \/ maxPacketLoss > 3 \/ maxRtt > 200
       THEN (IF current = "HIGH" \/ current = "LOW" THEN "MEDIUM" ELSE current)
  ELSE IF (worstQuality = "HIGH" \/ current # "HIGH") /\ maxPacketLoss < 2 /\ maxRtt < 150
       THEN "HIGH"
  ELSE current

\* variant: no recovery step out of audio-only
TargetQuality_NoRecoveryStep(current, worstQuality, maxPacketLoss, maxRtt) ==
  IF worstQuality = "AUDIO_ONLY" \/ maxPacketLoss > 15 \/ maxRtt > 3000 THEN "AUDIO_ONLY"
  ELSE IF worstQuality = "LOW" \/ maxPacketLoss > 8 \/ maxRtt > 500
       THEN (IF current # "AUDIO_ONLY" THEN "LOW" ELSE current)
  ELSE IF worstQuality = "MEDIUM" \/ maxPacketLoss > 3 \/ maxRtt > 200
       THEN (IF current = "HIGH" \/ current = "LOW" THEN "MEDIUM" ELSE current)
  ELSE IF (worstQuality = "HIGH" \/ current # "HIGH") /\ maxPacketLoss < 2 /\ maxRtt < 150
       THEN "HIGH"
  ELSE current

\* variant: the recovery out of audio-only goes to MEDIUM
TargetQuality_RecoverToMedium(current, worstQuality, maxPacketLoss, maxRtt) ==
  IF worstQuality = "AUDIO_ONLY" \/ maxPacketLoss > 15 \/ maxRtt > 3000 THEN "AUDIO_ONLY"
  ELSE IF current = "AUDIO_ONLY" /\ maxPacketLoss <= 10 /\ maxRtt <= 1000 THEN "MEDIUM"
  ELSE IF worstQuality = "LOW" \/ maxPacketLoss > 8 \/ maxRtt > 500
       THEN (IF current # "AUDIO_ONLY" THEN "LOW" ELSE current)
  ELSE IF worstQuality = "MEDIUM" \/ maxPacketLoss > 3 \/ maxRtt > 200
       THEN (IF current = "HIGH" \/ current = "LOW" THEN "MEDIUM" ELSE current)
  ELSE IF (worstQuality = "HIGH" \/ current # "HIGH") /\ maxPacketLoss < 2 /\ maxRtt < 150
       THEN "HIGH"
  ELSE current

\* lines 651-679
TargetQuality(current, worstQuality, maxPacketLoss, maxRtt) ==
  IF worstQuality = "AUDIO_ONLY" \/ maxPacketLoss > 15 \/ maxRtt > 3000 THEN "AUDIO_ONLY"
  ELSE IF current = "AUDIO_ONLY" /\ maxPacketLoss <= 10 /\ maxRtt <= 1000 THEN "LOW"
  ELSE IF worstQuality = "LOW" \/ maxPacketLoss > 8 \/ maxRtt > 500
       THEN (IF current # "AUDIO_ONLY" THEN "LOW" ELSE current)
  ELSE IF worstQuality = "MEDIUM" \/ maxPacketLoss > 3 \/ maxRtt > 200
       THEN (IF current = "HIGH" \/ current = "LOW" THEN "MEDIUM" ELSE current)
  ELSE IF (worstQuality = "HIGH" \/ current # "HIGH") /\ maxPacketLoss < 2 /\ maxRtt < 150
       THEN "HIGH"
  ELSE current

\* ------------------------------------------------------------------------
\* Suspended async functions
\* ------------------------------------------------------------------------
\* monitorNetworkQuality awaiting pc.getStats() of peer `cur`
SampleTask(p, visited) ==
  [kind |-> "sample", origin |-> "cycle", quality |-> "HIGH",
   cur |-> p, visited |-> visited, rest |-> {}, stale |-> FALSE]
\* adjustVideoQualityForAllPeers awaiting adjustVideoQuality(quality, sender of cur)
AdjustTask(q, origin, p, rest) ==
  [kind |-> "adjust", origin |-> origin, quality |-> q,
   cur |-> p, visited |-> {}, rest |-> rest, stale |-> FALSE]

\* the peerConnections map loses the entry of p: a cycle that awaits p's old
\* connection, or has visited it, meets a later entry for p as a new one
ForgetPeer(ts, p) ==
  {[t EXCEPT !.visited = @ \ {p}, !.stale = (@ \/ (t.kind = "sample" /\ t.cur = p))] : t \in ts}

\* adjustVideoQualityForAllPeers(quality), up to its first await
AdjustVideoQualityForAllPeers(quality, origin, others) ==
  IF peerConnections = {}
  THEN /\ tasks' = others
       /\ UNCHANGED <<currentVideoQuality, videoTrackEnabled>>
  ELSE IF quality = "AUDIO_ONLY"
  THEN /\ videoTrackEnabled' = FALSE
       /\ currentVideoQuality' = "AUDIO_ONLY"
       /\ tasks' = others
  ELSE /\ videoTrackEnabled' = ~isCameraOff
       /\ UNCHANGED currentVideoQuality
       /\ \E p \in peerConnections :
            tasks' = others \cup {AdjustTask(quality, origin, p, peerConnections \ {p})}

\* variant: the adaptation does not look at isAdaptiveMode
AdaptToNetworkConditions_IgnoreMode(stats, others) ==
  LET agg == Aggregate(stats)
      targetQuality == TargetQuality(currentVideoQuality, agg.worstQuality,
                                     agg.maxPacketLoss, agg.maxRtt)
  IN IF ~localStream \/ agg.peerCount = 0 \/ targetQuality = currentVideoQuality
     THEN /\ tasks' = others
          /\ UNCHANGED <<currentVideoQuality, videoTrackEnabled>>
     ELSE AdjustVideoQualityForAllPeers(targetQuality, "cycle", others)

\* variant: the target is applied even when it is the current quality
AdaptToNetworkConditions_Reapply(stats, others) ==
  LET agg == Aggregate(stats)
      targetQuality == TargetQuality(currentVideoQuality, agg.worstQuality,
                                     agg.maxPacketLoss, agg.maxRtt)
  IN IF ~localStream \/ ~isAdaptiveMode \/ agg.peerCount = 0
     THEN /\ tasks' = others
          /\ UNCHANGED <<currentVideoQuality, videoTrackEnabled>>
     ELSE AdjustVideoQualityForAllPeers(targetQuality, "cycle", others)

\* adaptToNetworkConditions() on the map `stats`, up to its first await
AdaptToNetworkConditions(stats, others) ==
  LET agg == Aggregate(stats)
      targetQuality == TargetQuality(currentVideoQuality, agg.worstQuality,
                                     agg.maxPacketLoss, agg.maxRtt)
  IN IF ~localStream \/ ~isAdaptiveMode \/ agg.peerCount = 0
        \/ targetQuality = currentVideoQuality
     THEN /\ tasks' = others
          /\ UNCHANGED <<currentVideoQuality, videoTrackEnabled>>
     ELSE AdjustVideoQualityForAllPeers(targetQuality, "cycle", others)

\* ------------------------------------------------------------------------
\* Initial state: the page is loaded, nothing joined
\* ------------------------------------------------------------------------
Init ==
  /\ localStream = FALSE
  /\ isCameraOff = FALSE
  /\ videoTrackEnabled = TRUE
  /\ peerConnections = {}
  /\ networkStats = EmptyMap
  /\ networkStatsRaw = EmptyMap
  /\ currentVideoQuality = "HIGH"
  /\ isAdaptiveMode = TRUE
  /\ networkMonitoringInterval = FALSE
  /\ initialConnectionPhase = TRUE
  /\ connectionStartTime = Null
  /\ now = 0
  /\ tasks = {}
  /\ isMicMuted = FALSE
  /\ audioTrackEnabled = TRUE
  /\ activeSpeaker = Null
  /\ audioLevels = EmptyMap
  /\ activeSpeakerInterval = FALSE
  /\ encodings = EmptyMap
  /\ SignalingIdle /\ ServerIdle

\* ------------------------------------------------------------------------
\* User actions and signaling events
\* ------------------------------------------------------------------------
\* joinBtn.onclick, after getUserMedia has resolved
Join ==
  /\ ~localStream
  /\ localStream' = TRUE
  /\ videoTrackEnabled' = TRUE
  /\ connectionStartTime' = Some(now)
  /\ initialConnectionPhase' = TRUE
  /\ networkMonitoringInterval' = TRUE
  /\ UNCHANGED <<isCameraOff, peerConnections, networkStats, currentVideoQuality,
                 isAdaptiveMode, now, tasks>>
  /\ UNCHANGED networkStatsRaw
  /\ audioTrackEnabled' = TRUE
  /\ activeSpeakerInterval' = TRUE
  /\ UNCHANGED <<isMicMuted, activeSpeaker, audioLevels, encodings>>
  /\ UNCHANGED <<signalVars, serverVars>>

\* leaveBtn.onclick
Leave ==
  /\ localStream
  /\ networkMonitoringInterval' = FALSE
  /\ networkStats' = EmptyMap
  /\ networkStatsRaw' = EmptyMap
  /\ peerConnections' = {}
  /\ localStream' = FALSE
  /\ currentVideoQuality' = "HIGH"
  /\ initialConnectionPhase' = TRUE
  /\ connectionStartTime' = Null
  /\ tasks' = {[t EXCEPT !.visited = {}, !.stale = (t.kind = "sample")] : t \in tasks}
  /\ UNCHANGED <<isCameraOff, videoTrackEnabled, isAdaptiveMode, now>>
  /\ activeSpeakerInterval' = FALSE
  /\ activeSpeaker' = Null
  /\ audioLevels' = EmptyMap
  /\ encodings' = EmptyMap
  /\ UNCHANGED mediaVars
  /\ participants' = {}
  /\ connections' = {[c EXCEPT !.state = "closed", !.mapped = FALSE] : c \in connections}
  /\ UNCHANGED <<pendingCalls, serverVars>>

\* createOfferFor / handleOffer: createPeerConnection(p) and addTrack of the
\* local tracks; enc is what getParameters().encodings[0] of the new video
\* sender holds, Null where the browser gives no encoding
PeerConnectWith(p, enc) ==
  /\ localStream
  /\ p \notin peerConnections
  /\ peerConnections' = peerConnections \cup {p}
  /\ encodings' = [q \in (DOMAIN encodings) \cup {p} |-> IF q = p THEN enc ELSE encodings[q]]
  /\ UNCHANGED <<localStream, isCameraOff, videoTrackEnabled, networkStats,
                 currentVideoQuality, isAdaptiveMode, networkMonitoringInterval,
                 initialConnectionPhase, connectionStartTime, now, tasks>>
  /\ UNCHANGED networkStatsRaw
  /\ UNCHANGED <<mediaVars, speakerVars>>
  /\ UNCHANGED <<signalVars, serverVars>>

\* a peer connection whose video sender exposes no encoding
PeerConnect(p) == PeerConnectWith(p, Null)

\* ws.onmessage, case 'user-left'
UserLeft(p) ==
  /\ \/ p \in peerConnections \/ p \in DOMAIN networkStats
     \/ p \in DOMAIN networkStatsRaw \/ p \in DOMAIN audioLevels
     \/ p \in participants
  /\ peerConnections' = peerConnections \ {p}
  /\ networkStats' = [q \in (DOMAIN networkStats) \ {p} |-> networkStats[q]]
  /\ networkStatsRaw' = [q \in (DOMAIN networkStatsRaw) \ {p} |-> networkStatsRaw[q]]
  /\ tasks' = ForgetPeer(tasks, p)
  /\ UNCHANGED <<localStream, isCameraOff, videoTrackEnabled, currentVideoQuality,
                 isAdaptiveMode, networkMonitoringInterval, initialConnectionPhase,
                 connectionStartTime, now>>
  /\ audioLevels' = [q \in (DOMAIN audioLevels) \ {p} |-> audioLevels[q]]
  /\ encodings' = [q \in (DOMAIN encodings) \ {p} |-> encodings[q]]
  /\ UNCHANGED <<mediaVars, activeSpeaker, activeSpeakerInterval>>
  /\ participants' = participants \ {p}
  /\ connections' = {IF c.peer = p /\ c.mapped
                       THEN [c EXCEPT !.state = "closed", !.mapped = FALSE] ELSE c :
                       c \in connections}
  /\ UNCHANGED <<pendingCalls, serverVars>>

\* reconnectToPeer(p) up to its await: the connection is closed and removed,
\* the networkStats entry stays; the new offer is a later PeerConnect(p)
ReconnectToPeer(p) ==
  /\ p \in peerConnections
  /\ peerConnections' = peerConnections \ {p}
  /\ tasks' = ForgetPeer(tasks, p)
  /\ UNCHANGED <<localStream, isCameraOff, videoTrackEnabled, networkStats,
                 currentVideoQuality, isAdaptiveMode, networkMonitoringInterval,
                 initialConnectionPhase, connectionStartTime, now>>
  /\ UNCHANGED networkStatsRaw
  /\ encodings' = [q \in (DOMAIN encodings) \ {p} |-> encodings[q]]
  /\ UNCHANGED <<mediaVars, speakerVars>>
  /\ UNCHANGED <<signalVars, serverVars>>

\* adaptiveModeToggle.onclick; the button exists between join and leave
ToggleAdaptive ==
  /\ localStream
  /\ isAdaptiveMode' = ~isAdaptiveMode
  /\ IF isAdaptiveMode /\ currentVideoQuality # "HIGH"
     THEN /\ peerConnections # {} => Cardinality(tasks) < MaxTasks
          /\ AdjustVideoQualityForAllPeers("HIGH", "toggle", tasks)
     ELSE UNCHANGED <<currentVideoQuality, videoTrackEnabled, tasks>>
  /\ UNCHANGED <<localStream, isCameraOff, peerConnections, networkStats,
                 networkMonitoringInterval, initialConnectionPhase,
                 connectionStartTime, now>>
  /\ UNCHANGED networkStatsRaw
  /\ UNCHANGED <<mediaVars, speakerVars, encodings>>
  /\ UNCHANGED <<signalVars, serverVars>>

\* time passes during a session
Tick ==
  /\ localStream
  /\ now + TickMs <= MaxNow
  /\ now' = now + TickMs
  /\ UNCHANGED <<localStream, isCameraOff, videoTrackEnabled, peerConnections,
                 networkStats, currentVideoQuality, isAdaptiveMode,
                 networkMonitoringInterval, initialConnectionPhase,
                 connectionStartTime, tasks>>
  /\ UNCHANGED networkStatsRaw
  /\ UNCHANGED <<mediaVars, speakerVars, encodings>>
  /\ UNCHANGED <<signalVars, serverVars>>

\* ------------------------------------------------------------------------
\* The monitoring cycle
\* ------------------------------------------------------------------------
GraceElapsed ==
  /\ initialConnectionPhase
  /\ connectionStartTime # Null
  /\ now - connectionStartTime[1] > GracePeriodMs

\* the timer fires: monitorNetworkQuality() up to its first await, while fewer
\* than `limit` async functions are suspended
MonitorStartWithin(limit) ==
  /\ networkMonitoringInterval
  /\ peerConnections # {} => Cardinality(tasks) < limit
  /\ initialConnectionPhase' = (initialConnectionPhase /\ ~GraceElapsed)
  /\ IF peerConnections # {}
     THEN /\ \E p \in peerConnections : tasks' = tasks \cup {SampleTask(p, {})}
          /\ UNCHANGED <<currentVideoQuality, videoTrackEnabled>>
     ELSE IF DOMAIN networkStats # {}
     THEN AdaptToNetworkConditions(networkStats, tasks)
     ELSE UNCHANGED <<currentVideoQuality, videoTrackEnabled, tasks>>
  /\ UNCHANGED <<localStream, isCameraOff, peerConnections, networkStats,
                 isAdaptiveMode, networkMonitoringInterval, connectionStartTime, now>>
  /\ UNCHANGED networkStatsRaw
  /\ UNCHANGED <<mediaVars, speakerVars, encodings>>
  /\ UNCHANGED <<signalVars, serverVars>>

MonitorStart == MonitorStartWithin(MaxTasks)

\* variant: a rejected getStats ends the run of monitorNetworkQuality
SampleReturn_AbortOnFailure(c, o) ==
  /\ c \in tasks
  /\ c.kind = "sample"
  /\ LET stats == IF o.ok /\ o.some
                  THEN [q \in (DOMAIN networkStats) \cup {c.cur} |->
                          IF q = c.cur THEN MetricsOf(initialConnectionPhase, o.m)
                          ELSE networkStats[q]]
                  ELSE networkStats
         visited == IF c.stale THEN c.visited ELSE c.visited \cup {c.cur}
         others == tasks \ {c}
     IN /\ networkStats' = stats
        /\ IF ~o.ok
           THEN /\ tasks' = others
                /\ UNCHANGED <<currentVideoQuality, videoTrackEnabled>>
           ELSE IF peerConnections \ visited # {}
           THEN /\ \E p \in peerConnections \ visited :
                     tasks' = others \cup {SampleTask(p, visited)}
                /\ UNCHANGED <<currentVideoQuality, videoTrackEnabled>>
           ELSE IF DOMAIN stats # {}
           THEN AdaptToNetworkConditions(stats, others)
           ELSE /\ tasks' = others
                /\ UNCHANGED <<currentVideoQuality, videoTrackEnabled>>
  /\ UNCHANGED <<localStream, isCameraOff, peerConnections, isAdaptiveMode,
                 networkMonitoringInterval, initialConnectionPhase,
                 connectionStartTime, now>>
  /\ UNCHANGED networkStatsRaw
  /\ UNCHANGED <<mediaVars, speakerVars, encodings>>
  /\ UNCHANGED <<signalVars, serverVars>>

\* pc.getStats() of c.cur settles: analyzeStats, networkStats.set, the next
\* peer of the loop or, after the last one, adaptToNetworkConditions
SampleReturn(c, o) ==
  /\ c \in tasks
  /\ c.kind = "sample"
  /\ LET stats == IF o.ok /\ o.some
                  THEN [q \in (DOMAIN networkStats) \cup {c.cur} |->
                          IF q = c.cur THEN MetricsOf(initialConnectionPhase, o.m)
                          ELSE networkStats[q]]
                  ELSE networkStats
         visited == IF c.stale THEN c.visited ELSE c.visited \cup {c.cur}
         others == tasks \ {c}
     IN /\ networkStats' = stats
        /\ IF peerConnections \ visited # {}
           THEN /\ \E p \in peerConnections \ visited :
                     tasks' = others \cup {SampleTask(p, visited)}
                /\ UNCHANGED <<currentVideoQuality, videoTrackEnabled>>
           ELSE IF DOMAIN stats # {}
           THEN AdaptToNetworkConditions(stats, others)
           ELSE /\ tasks' = others
                /\ UNCHANGED <<currentVideoQuality, videoTrackEnabled>>
  /\ UNCHANGED <<localStream, isCameraOff, peerConnections, isAdaptiveMode,
                 networkMonitoringInterval, initialConnectionPhase,
                 connectionStartTime, now>>
  /\ UNCHANGED networkStatsRaw
  /\ UNCHANGED <<mediaVars, speakerVars, encodings>>
  /\ UNCHANGED <<signalVars, serverVars>>

\* what adjustVideoQuality writes into encodings[0] for a quality
QualityEncoding(e, quality) ==
  CASE quality = "LOW" -> [e EXCEPT !.maxBitrate = 200000, !.priority = "low"]
    [] quality = "MEDIUM" -> [e EXCEPT !.maxBitrate = 600000, !.priority = "medium"]
    [] quality = "HIGH" -> [e EXCEPT !.maxBitrate = 1200000, !.priority = "high"]
    [] OTHER -> e

\* variant: a rejected applyConstraints / setParameters ends the run
AdjustReturn_AbortOnFailure(c, ok) ==
  /\ c \in tasks
  /\ c.kind = "adjust"
  /\ currentVideoQuality' = IF ok THEN c.quality ELSE currentVideoQuality
  /\ IF c.rest = {} \/ ~ok
     THEN /\ tasks' = tasks \ {c}
          /\ UNCHANGED videoTrackEnabled
     ELSE /\ videoTrackEnabled' = ~isCameraOff
          /\ \E p \in c.rest :
               tasks' = (tasks \ {c}) \cup {AdjustTask(c.quality, c.origin, p, c.rest \ {p})}
  /\ encodings' = IF ok /\ c.cur \in DOMAIN encodings /\ encodings[c.cur] # Null
                  THEN [encodings EXCEPT
                          ![c.cur] = Some(QualityEncoding(encodings[c.cur][1], c.quality))]
                  ELSE encodings
  /\ UNCHANGED <<localStream, isCameraOff, peerConnections, networkStats,
                 isAdaptiveMode, networkMonitoringInterval, initialConnectionPhase,
                 connectionStartTime, now>>
  /\ UNCHANGED networkStatsRaw
  /\ UNCHANGED <<mediaVars, speakerVars>>
  /\ UNCHANGED <<signalVars, serverVars>>

\* applyConstraints / setParameters of adjustVideoQuality(c.quality, sender of
\* c.cur) settle: on success currentVideoQuality is written; then the loop of
\* adjustVideoQualityForAllPeers enters the next sender up to its await
AdjustReturn(c, ok) ==
  /\ c \in tasks
  /\ c.kind = "adjust"
  /\ currentVideoQuality' = IF ok THEN c.quality ELSE currentVideoQuality
  /\ IF c.rest = {}
     THEN /\ tasks' = tasks \ {c}
          /\ UNCHANGED videoTrackEnabled
     ELSE /\ videoTrackEnabled' = ~isCameraOff
          /\ \E p \in c.rest :
               tasks' = (tasks \ {c}) \cup {AdjustTask(c.quality, c.origin, p, c.rest \ {p})}
  /\ encodings' = IF ok /\ c.cur \in DOMAIN encodings /\ encodings[c.cur] # Null
                  THEN [encodings EXCEPT
                          ![c.cur] = Some(QualityEncoding(encodings[c.cur][1], c.quality))]
                  ELSE encodings
  /\ UNCHANGED <<localStream, isCameraOff, peerConnections, networkStats,
                 isAdaptiveMode, networkMonitoringInterval, initialConnectionPhase,
                 connectionStartTime, now>>
  /\ UNCHANGED networkStatsRaw
  /\ UNCHANGED <<mediaVars, speakerVars>>
  /\ UNCHANGED <<signalVars, serverVars>>

Next ==
  \/ Join
  \/ Leave
  \/ \E p \in Peers : PeerConnect(p)
  \/ \E p \in Peers : UserLeft(p)
  \/ \E p \in Peers : ReconnectToPeer(p)
  \/ ToggleAdaptive
  \/ Tick
  \/ MonitorStart
  \/ \E c \in tasks, o \in StatsOutcomes : SampleReturn(c, o)
  \/ \E c \in tasks, ok \in BOOLEAN : AdjustReturn(c, ok)

Spec == Init /\ [][Next]_vars

\* ------------------------------------------------------------------------
\* The monitoring cycle alone, over the whole range of measurements
\* ------------------------------------------------------------------------
\* one value in every band the classifier and the rule table distinguish:
\* loss against 2, 3, 8, 10 and 15 percent, rtt against 150, 200, 400, 500,
\* 1000 and 3000 ms, bitrate against 60000, 150000 and 500000 bit/s
LossValues == {0, 2, 5, 9, 12, 20}
RttValues == {50, 150, 300, 450, 800, 2000, 4000}
BitrateValues == {0, 100000, 300000, 800000}
AllSamples ==
  {[videoPacketLoss |-> l, audioPacketLoss |-> 0, rtt |-> r, totalBitrate |-> b] :
     l \in LossValues, r \in RttValues, b \in BitrateValues}
AllOutcomes == StatsOutcomes \cup {[ok |-> TRUE, some |-> TRUE, m |-> s] : s \in AllSamples}

\* what getStats of peer p can give: the first peer is measured over the whole
\* range, the others over Samples
OutcomesOf(p) == IF p = "A" THEN AllOutcomes ELSE StatsOutcomes

\* a session in progress with both peers connected and no measurement yet, at
\* any quality earlier cycles have left, inside the grace period or beyond it
InitAdapt ==
  /\ localStream = TRUE
  /\ isCameraOff = FALSE
  /\ currentVideoQuality \in Qualities
  /\ videoTrackEnabled = (currentVideoQuality # "AUDIO_ONLY")
  /\ peerConnections = Peers
  /\ networkStats = EmptyMap
  /\ networkStatsRaw = EmptyMap
  /\ isAdaptiveMode = TRUE
  /\ networkMonitoringInterval = TRUE
  /\ initialConnectionPhase \in BOOLEAN
  /\ connectionStartTime = Some(0)
  /\ now = (IF initialConnectionPhase THEN 0 ELSE MaxNow)
  /\ tasks = {}
  /\ isMicMuted = FALSE
  /\ audioTrackEnabled = TRUE
  /\ activeSpeaker = Null
  /\ audioLevels = EmptyMap
  /\ activeSpeakerInterval = TRUE
  /\ encodings = [p \in Peers |-> Null]
  /\ SignalingIdle /\ ServerIdle

NextAdapt ==
  \/ MonitorStart
  \/ \E c \in tasks : \E o \in OutcomesOf(c.cur) : SampleReturn(c, o)
  \/ \E c \in tasks, ok \in BOOLEAN : AdjustReturn(c, ok)

SpecAdapt == InitAdapt /\ [][NextAdapt]_vars

\* ------------------------------------------------------------------------
\* analyzeStats on raw reports: the computation of the packet loss
\* ------------------------------------------------------------------------
\* a percentage is the exact fraction n/d, d > 0, held as <<n, d>>
Pct(n, d) == <<n, d>>
Whole(k) == <<k, 1>>
Lt(a, b) == a[1] * b[2] < b[1] * a[2]
MinR(a, b) == IF Lt(b, a) THEN b ELSE a
MaxR(a, b) == IF Lt(a, b) THEN b ELSE a

\* report.field || 0
Field(r, f) == IF f \in DOMAIN r THEN r[f] ELSE 0

\* loss of one media kind from the outbound counters of this report and of the
\* previous one (lines 449-463 for video, 466-481 for audio); cur and prev are
\* Null or Some(report)
OutboundLoss(cur, prev) ==
  IF cur # Null /\ prev # Null
  THEN LET packetsDelta == cur[1].packetsSent - prev[1].packetsSent
           packetsLostDelta == Field(cur[1], "packetsLost") - Field(prev[1], "packetsLost")
       IN IF packetsDelta > 0 /\ packetsLostDelta >= 0
          THEN MinR(Whole(100), Pct(packetsLostDelta * 100, packetsDelta))
          ELSE Whole(0)
  ELSE Whole(0)

\* (bytesDelta * 8) / timeDelta of one media kind (lines 451-453 for video,
\* 468-470 for audio) in bits per second, as the exact fraction <<n, d>> with d
\* the milliseconds between the two snapshots; d is 0 when both were taken at
\* the same Date.now(). cur is Null or Some(report), previousStats Null or
\* Some(entry)
OutboundBitrate(cur, previousStats, kind) ==
  IF cur # Null /\ previousStats # Null /\ previousStats[1][kind] # Null
  THEN <<(cur[1].bytesSent - previousStats[1][kind][1].bytesSent) * 8 * 1000,
         now - previousStats[1].timestamp>>
  ELSE Whole(0)

\* loss of one media kind from the remote-inbound-rtp report (lines 497-511
\* for video, 513-527 for audio): `has` is its contribution to
\* hasRemoteInboundStats
RemoteLoss(r) ==
  IF r = Null THEN [has |-> FALSE, loss |-> Whole(0)]
  ELSE LET packetsLost == Field(r[1], "packetsLost")
           packetsReceived == Field(r[1], "packetsReceived")
           totalPackets == packetsLost + packetsReceived
       IN IF (packetsReceived > 0 \/ packetsLost > 0) /\ totalPackets > 0
          THEN [has |-> TRUE, loss |-> Pct(packetsLost * 100, totalPackets)]
          ELSE [has |-> FALSE, loss |-> Whole(0)]

\* the fallback to the inbound-rtp report i (lines 541-549, 553-559)
InboundLoss(i, current) ==
  LET packetsLost == Field(i[1], "packetsLost")
      packetsReceived == Field(i[1], "packetsReceived")
      totalPackets == packetsLost + packetsReceived
  IN IF totalPackets > 100 THEN Pct(packetsLost * 100, totalPackets) ELSE current

\* variant: the final check caps at 100 as the outbound computation does
CapLoss_Hundred(x) == MinR(Whole(100), MaxR(Whole(0), x))

\* Math.min(50, Math.max(0, x)) (lines 562-563)
CapLoss(x) == MinR(Whole(LossCap), MaxR(Whole(0), x))

\* analyzeStats returns null (line 432)
NoRtp(report) ==
  /\ report.outboundVideo = Null /\ report.outboundAudio = Null
  /\ report.inboundVideo = Null /\ report.inboundAudio = Null

\* the timestamp, the bitrates, the losses and the raw counters of the metrics
\* analyzeStats returns; previousStats is Null or Some(entry)
AnalyzeStats(report, previousStats) ==
  LET prevVideo == IF previousStats = Null THEN Null ELSE previousStats[1].outboundVideo
      prevAudio == IF previousStats = Null THEN Null ELSE previousStats[1].outboundAudio
      outV == OutboundLoss(report.outboundVideo, prevVideo)
      outA == OutboundLoss(report.outboundAudio, prevAudio)
      remV == RemoteLoss(report.remoteInboundVideo)
      remA == RemoteLoss(report.remoteInboundAudio)
      hasRemoteInboundStats == remV.has \/ remA.has
      v1 == IF hasRemoteInboundStats /\ Lt(remV.loss, Whole(100)) THEN remV.loss ELSE outV
      a1 == IF hasRemoteInboundStats /\ Lt(remA.loss, Whole(100)) THEN remA.loss ELSE outA
      v2 == IF (~Lt(v1, Whole(100)) \/ ~Lt(a1, Whole(100))) /\ report.inboundVideo # Null
            THEN InboundLoss(report.inboundVideo, v1) ELSE v1
      a2 == IF ~Lt(a1, Whole(100)) /\ report.inboundAudio # Null
            THEN InboundLoss(report.inboundAudio, a1) ELSE a1
  IN [timestamp |-> now,
      videoBitrate |-> OutboundBitrate(report.outboundVideo, previousStats, "outboundVideo"),
      audioBitrate |-> OutboundBitrate(report.outboundAudio, previousStats, "outboundAudio"),
      videoPacketLoss |-> CapLoss(v2), audioPacketLoss |-> CapLoss(a2),
      outboundVideo |-> report.outboundVideo, outboundAudio |-> report.outboundAudio]

\* the counters a getStats report can carry. Outbound: bytesSent, packetsSent
\* and, where the browser gives it, packetsLost; the deltas between two of
\* them give a loss of 0%, 30%, 65% and 100%, and counters that run backwards
\* (the report of a connection younger than the previous snapshot)
OutboundVideoReports ==
  {Null, Some([bytesSent |-> 10000, packetsSent |-> 100]),
   Some([bytesSent |-> 20000, packetsSent |-> 200, packetsLost |-> 30]),
   Some([bytesSent |-> 30000, packetsSent |-> 300, packetsLost |-> 130])}
OutboundAudioReports ==
  {Null, Some([bytesSent |-> 1000, packetsSent |-> 100, packetsLost |-> 0]),
   Some([bytesSent |-> 2000, packetsSent |-> 200, packetsLost |-> 20]),
   Some([bytesSent |-> 2000, packetsSent |-> 200, packetsLost |-> 100])}
\* remote-inbound: no loss, 75%, a negative packetsLost, packetsLost alone (100%)
RemoteVideoReports ==
  {Null, Some([packetsLost |-> 0, packetsReceived |-> 100]),
   Some([packetsLost |-> 300, packetsReceived |-> 100]),
   Some([packetsLost |-> 0 - 5, packetsReceived |-> 10]),
   Some([packetsLost |-> 50])}
RemoteAudioReports ==
  {Null, Some([packetsLost |-> 0, packetsReceived |-> 100]),
   Some([packetsLost |-> 300, packetsReceived |-> 100])}
\* inbound: 60% of 150 packets, too few packets, a negative packetsLost
InboundVideoReports ==
  {Null, Some([packetsLost |-> 90, packetsReceived |-> 60]),
   Some([packetsLost |-> 5, packetsReceived |-> 10]),
   Some([packetsLost |-> 0 - 200, packetsReceived |-> 350])}
InboundAudioReports == {Null, Some([packetsLost |-> 90, packetsReceived |-> 60])}
Reports ==
  [outboundVideo : OutboundVideoReports, outboundAudio : OutboundAudioReports,
   remoteInboundVideo : RemoteVideoReports, remoteInboundAudio : RemoteAudioReports,
   inboundVideo : InboundVideoReports, inboundAudio : InboundAudioReports]

\* monitorNetworkQuality on peer p once getStats has given `report`:
\* analyzeStats(stats, peerId) and networkStats.set(peerId, networkMetrics)
AnalyzeAndStore(p, report) ==
  /\ p \in peerConnections
  /\ networkStatsRaw' =
       IF NoRtp(report) THEN networkStatsRaw
       ELSE LET previousStats == IF p \in DOMAIN networkStatsRaw
                                 THEN Some(networkStatsRaw[p]) ELSE Null
            IN [q \in (DOMAIN networkStatsRaw) \cup {p} |->
                  IF q = p THEN AnalyzeStats(report, previousStats) ELSE networkStatsRaw[q]]
  /\ UNCHANGED <<localStream, isCameraOff, videoTrackEnabled, peerConnections,
                 networkStats, currentVideoQuality, isAdaptiveMode,
                 networkMonitoringInterval, initialConnectionPhase,
                 connectionStartTime, now, tasks>>
  /\ UNCHANGED <<mediaVars, speakerVars, encodings>>
  /\ UNCHANGED <<signalVars, serverVars>>

\* a session in progress with the first peer connected
InitAnalyze ==
  /\ localStream = TRUE
  /\ isCameraOff = FALSE
  /\ videoTrackEnabled = TRUE
  /\ peerConnections = {"A"}
  /\ networkStats = EmptyMap
  /\ networkStatsRaw = EmptyMap
  /\ currentVideoQuality = "HIGH"
  /\ isAdaptiveMode = TRUE
  /\ networkMonitoringInterval = TRUE
  /\ initialConnectionPhase = TRUE
  /\ connectionStartTime = Some(0)
  /\ now = 0
  /\ tasks = {}
  /\ isMicMuted = FALSE
  /\ audioTrackEnabled = TRUE
  /\ activeSpeaker = Null
  /\ audioLevels = EmptyMap
  /\ activeSpeakerInterval = TRUE
  /\ encodings = [p \in {"A"} |-> Null]
  /\ SignalingIdle /\ ServerIdle

NextAnalyze ==
  \/ \E report \in Reports : AnalyzeAndStore("A", report)
  \/ UserLeft("A")
  \/ ReconnectToPeer("A")
  \/ PeerConnect("A")

SpecAnalyze == InitAnalyze /\ [][NextAnalyze]_vars

\* ------------------------------------------------------------------------
\* analyzeStats on raw reports: short windows and the clock
\* ------------------------------------------------------------------------
\* reports taken shortly after a connection started: the outbound counters as
\* above, ten or twenty packets seen by the remote side with three or none of
\* them lost, no inbound stream yet
EarlyReports ==
  [outboundVideo : OutboundVideoReports,
   outboundAudio : {Null, Some([bytesSent |-> 1000, packetsSent |-> 100, packetsLost |-> 0])},
   remoteInboundVideo : {Null, Some([packetsLost |-> 3, packetsReceived |-> 7]),
                         Some([packetsLost |-> 0, packetsReceived |-> 20])},
   remoteInboundAudio : {Null}, inboundVideo : {Null}, inboundAudio : {Null}]

NextEarly ==
  \/ \E report \in EarlyReports : AnalyzeAndStore("A", report)
  \/ Tick
  \/ UserLeft("A")
  \/ ReconnectToPeer("A")
  \/ PeerConnect("A")

SpecEarly == InitAnalyze /\ [][NextEarly]_vars

\* ------------------------------------------------------------------------
\* analyzeStats: the verdict over the boundaries of every band
\* ------------------------------------------------------------------------
\* measurements on, just below and just above every threshold of the chain
ClassifierInputs ==
  [videoPacketLoss : {0, 1, 2, 3, 4, 8, 9, 15, 16},
   audioPacketLoss : {0, 9},
   rtt : {0, 149, 150, 200, 201, 400, 401, 500, 501},
   totalBitrate : {0, 30000, 60000, 60001, 149999, 150000, 499999, 500000, 800000}]

\* analyzeStats on the measurement m of link p and networkStats.set (line 391);
\* the bitrate of the entry is kept in networkStatsRaw
ClassifyAndStore(p, m) ==
  /\ p \in peerConnections
  /\ networkStats' = [q \in (DOMAIN networkStats) \cup {p} |->
                        IF q = p THEN MetricsOf(initialConnectionPhase, m)
                        ELSE networkStats[q]]
  /\ networkStatsRaw' = [q \in (DOMAIN networkStatsRaw) \cup {p} |->
                           IF q = p THEN [totalBitrate |-> m.totalBitrate]
                           ELSE networkStatsRaw[q]]
  /\ UNCHANGED <<localStream, isCameraOff, videoTrackEnabled, peerConnections,
                 currentVideoQuality, isAdaptiveMode, networkMonitoringInterval,
                 initialConnectionPhase, connectionStartTime, now, tasks>>
  /\ UNCHANGED <<mediaVars, speakerVars, encodings>>
  /\ UNCHANGED <<signalVars, serverVars>>

\* a session with one peer, inside or outside the initial phase
InitClassify ==
  /\ localStream = TRUE
  /\ isCameraOff = FALSE
  /\ videoTrackEnabled = TRUE
  /\ peerConnections = {"A"}
  /\ networkStats = EmptyMap
  /\ networkStatsRaw = EmptyMap
  /\ currentVideoQuality = "HIGH"
  /\ isAdaptiveMode = TRUE
  /\ networkMonitoringInterval = TRUE
  /\ initialConnectionPhase \in BOOLEAN
  /\ connectionStartTime = Some(0)
  /\ now = (IF initialConnectionPhase THEN 0 ELSE MaxNow)
  /\ tasks = {}
  /\ isMicMuted = FALSE
  /\ audioTrackEnabled = TRUE
  /\ activeSpeaker = Null
  /\ audioLevels = EmptyMap
  /\ activeSpeakerInterval = TRUE
  /\ encodings = [p \in {"A"} |-> Null]
  /\ SignalingIdle /\ ServerIdle

\* the first sample of a link, which leaves and connects again
NextClassify ==
  \/ \E m \in ClassifierInputs : "A" \notin DOMAIN networkStats /\ ClassifyAndStore("A", m)
  \/ UserLeft("A")
  \/ PeerConnect("A")

SpecClassify == InitClassify /\ [][NextClassify]_vars

\* ------------------------------------------------------------------------
\* The whole client with the microphone and camera buttons
\* ------------------------------------------------------------------------
\* micBtn.onclick
MicToggle ==
  /\ localStream
  /\ isMicMuted' = ~isMicMuted
  /\ audioTrackEnabled' = ~isMicMuted'
  /\ UNCHANGED <<localStream, isCameraOff, videoTrackEnabled, peerConnections,
                 networkStats, networkStatsRaw, currentVideoQuality, isAdaptiveMode,
                 networkMonitoringInterval, initialConnectionPhase,
                 connectionStartTime, now, tasks>>
  /\ UNCHANGED <<speakerVars, encodings>>
  /\ UNCHANGED <<signalVars, serverVars>>

\* cameraBtn.onclick: the track follows the button, whatever the quality is
CameraToggle ==
  /\ localStream
  /\ isCameraOff' = ~isCameraOff
  /\ videoTrackEnabled' = ~isCameraOff'
  /\ UNCHANGED <<localStream, peerConnections, networkStats, networkStatsRaw,
                 currentVideoQuality, isAdaptiveMode, networkMonitoringInterval,
                 initialConnectionPhase, connectionStartTime, now, tasks>>
  /\ UNCHANGED <<mediaVars, speakerVars, encodings>>
  /\ UNCHANGED <<signalVars, serverVars>>

NextMedia ==
  \/ Next
  \/ MicToggle
  \/ CameraToggle

SpecMedia == Init /\ [][NextMedia]_vars

\* ------------------------------------------------------------------------
\* The timer against the cycles it has started
\* ------------------------------------------------------------------------
\* setInterval (line 1155) calls monitorNetworkQuality every 3 seconds and does
\* not look at the promise the previous call returned
NextOverlap ==
  \/ MonitorStartWithin(MaxOverlap)
  \/ \E c \in tasks, o \in StatsOutcomes : SampleReturn(c, o)
  \/ \E c \in tasks, ok \in BOOLEAN : AdjustReturn(c, ok)

SpecOverlap == InitAdapt /\ [][NextOverlap]_vars

\* ------------------------------------------------------------------------
\* Active-speaker detection
\* ------------------------------------------------------------------------
\* the remote participants whose audio is analysed: the peers and a third one
RemoteParticipants == Peers \cup {"C"}

\* audio levels in hundredths: the threshold itself, 0.02, 0.5 and 0.6
LevelValues == {AUDIO_LEVEL_THRESHOLD, 2, 50, 60}

\* time steps that put an entry just inside and just outside the 2 seconds
ElapseValues == {StaleAfterMs - 1, StaleAfterMs}

\* the enumerations of a set, as Map.forEach may visit its keys
Orders(S) ==
  {o \in [1..Cardinality(S) -> S] : \A i, j \in 1..Cardinality(S) : i # j => o[i] # o[j]}

\* variant: the age of the entry is not looked at
SpeakerStep_IgnoreAge(acc, id, data, t) ==
  IF data.level > acc.maxLevel /\ data.level > AUDIO_LEVEL_THRESHOLD
  THEN [maxLevel |-> data.level, speakerId |-> Some(id)]
  ELSE acc

\* the callback of audioLevels.forEach (lines 264-269) on one entry
SpeakerStep(acc, id, data, t) ==
  IF t - data.timestamp < StaleAfterMs /\ data.level > acc.maxLevel
     /\ data.level > AUDIO_LEVEL_THRESHOLD
  THEN [maxLevel |-> data.level, speakerId |-> Some(id)]
  ELSE acc

RECURSIVE FoldSpeaker(_, _, _, _)
FoldSpeaker(order, levels, t, acc) ==
  IF order = <<>> THEN acc
  ELSE FoldSpeaker(Tail(order), levels, t,
                   SpeakerStep(acc, Head(order), levels[Head(order)], t))

\* speakerId after the forEach of updateActiveSpeaker, from maxLevel = 0 and
\* speakerId = null (lines 259-260)
SelectSpeaker(order, levels, t) ==
  FoldSpeaker(order, levels, t, [maxLevel |-> 0, speakerId |-> Null]).speakerId

\* what optimizeBandwidthForParticipant writes into encodings[0]
TierEncoding(tier) ==
  IF tier = "SPEAKER"
  THEN [maxBitrate |-> 1200000, priority |-> "high", maxFramerate |-> 30]
  ELSE [maxBitrate |-> 300000, priority |-> "medium", maxFramerate |-> 15]

\* encodings[0] of a new video sender: no cap set, the default priority
DefaultEncoding == [maxBitrate |-> 0, priority |-> "low", maxFramerate |-> 0]

\* optimizeBandwidthForParticipant(p, isActiveSpeaker) awaiting applyConstraints
\* / setParameters
OptimizeTask(p, isActiveSpeaker) ==
  [kind |-> "optimize", origin |-> "speaker",
   quality |-> IF isActiveSpeaker THEN "SPEAKER" ELSE "BACKGROUND",
   cur |-> p, visited |-> {}, rest |-> {}, stale |-> FALSE]

\* updateActiveSpeakerLayout: optimizeBandwidthForParticipant is called for
\* every participant and goes on to its await for those that have a peer
\* connection with an encoding, adaptive mode being on
OptimizeCalls(speakerId) ==
  IF ~isAdaptiveMode THEN {}
  ELSE {OptimizeTask(p, speakerId = Some(p)) :
          p \in {q \in peerConnections : encodings[q] # Null}}

\* Participant.monitorAudioLevel, updateLevel: the analyser of p measures level
AudioLevel(p, level) ==
  /\ localStream
  /\ audioLevels' = [q \in (DOMAIN audioLevels) \cup {p} |->
                       IF q = p THEN [level |-> level, timestamp |-> now]
                       ELSE audioLevels[q]]
  /\ UNCHANGED <<localStream, isCameraOff, videoTrackEnabled, peerConnections,
                 networkStats, networkStatsRaw, currentVideoQuality, isAdaptiveMode,
                 networkMonitoringInterval, initialConnectionPhase,
                 connectionStartTime, now, tasks>>
  /\ UNCHANGED <<mediaVars, activeSpeaker, activeSpeakerInterval, encodings>>
  /\ UNCHANGED <<signalVars, serverVars>>

\* time passes while the audio levels are followed
Elapse(d) ==
  /\ localStream
  /\ now + d <= MaxSpeakerNow
  /\ now' = now + d
  /\ UNCHANGED <<localStream, isCameraOff, videoTrackEnabled, peerConnections,
                 networkStats, networkStatsRaw, currentVideoQuality, isAdaptiveMode,
                 networkMonitoringInterval, initialConnectionPhase,
                 connectionStartTime, tasks>>
  /\ UNCHANGED <<mediaVars, speakerVars, encodings>>
  /\ UNCHANGED <<signalVars, serverVars>>

\* speakerId at line 272: updateActiveSpeaker returns at line 256 with
\* activeSpeaker untouched when audioLevels is empty
SpeakerAfterTick(order) ==
  IF DOMAIN audioLevels = {} THEN activeSpeaker
  ELSE SelectSpeaker(order, audioLevels, now)

\* the active-speaker timer fires: updateActiveSpeaker, and on a change
\* updateActiveSpeakerLayout up to the awaits of its calls
UpdateActiveSpeaker(order) ==
  /\ activeSpeakerInterval
  /\ order \in Orders(DOMAIN audioLevels)
  /\ LET speakerId == SpeakerAfterTick(order)
     IN IF speakerId # activeSpeaker
        THEN /\ activeSpeaker' = speakerId
             /\ tasks' = tasks \cup OptimizeCalls(speakerId)
        ELSE UNCHANGED <<activeSpeaker, tasks>>
  /\ UNCHANGED <<localStream, isCameraOff, videoTrackEnabled, peerConnections,
                 networkStats, networkStatsRaw, currentVideoQuality, isAdaptiveMode,
                 networkMonitoringInterval, initialConnectionPhase,
                 connectionStartTime, now>>
  /\ UNCHANGED <<mediaVars, audioLevels, activeSpeakerInterval, encodings>>
  /\ UNCHANGED <<signalVars, serverVars>>

\* applyConstraints / setParameters of optimizeBandwidthForParticipant settle
OptimizeReturn(c, ok) ==
  /\ c \in tasks
  /\ c.kind = "optimize"
  /\ tasks' = tasks \ {c}
  /\ encodings' = IF ok /\ c.cur \in DOMAIN encodings /\ encodings[c.cur] # Null
                  THEN [encodings EXCEPT ![c.cur] = Some(TierEncoding(c.quality))]
                  ELSE encodings
  /\ UNCHANGED <<localStream, isCameraOff, videoTrackEnabled, peerConnections,
                 networkStats, networkStatsRaw, currentVideoQuality, isAdaptiveMode,
                 networkMonitoringInterval, initialConnectionPhase,
                 connectionStartTime, now>>
  /\ UNCHANGED <<mediaVars, speakerVars>>
  /\ UNCHANGED <<signalVars, serverVars>>

\* a session in progress with both peers connected, nobody heard yet
InitSpeaker ==
  /\ localStream = TRUE
  /\ isCameraOff = FALSE
  /\ videoTrackEnabled = TRUE
  /\ peerConnections = Peers
  /\ networkStats = EmptyMap
  /\ networkStatsRaw = EmptyMap
  /\ currentVideoQuality = "HIGH"
  /\ isAdaptiveMode = TRUE
  /\ networkMonitoringInterval = TRUE
  /\ initialConnectionPhase = TRUE
  /\ connectionStartTime = Some(0)
  /\ now = 0
  /\ tasks = {}
  /\ isMicMuted = FALSE
  /\ audioTrackEnabled = TRUE
  /\ activeSpeaker = Null
  /\ audioLevels = EmptyMap
  /\ activeSpeakerInterval = TRUE
  /\ encodings = [p \in Peers |-> Null]
  /\ SignalingIdle /\ ServerIdle

NextSpeaker ==
  \/ \E p \in RemoteParticipants, level \in LevelValues : AudioLevel(p, level)
  \/ \E d \in ElapseValues : Elapse(d)
  \/ \E order \in Orders(DOMAIN audioLevels) : UpdateActiveSpeaker(order)
  \/ \E p \in RemoteParticipants : UserLeft(p)

SpecSpeaker == InitSpeaker /\ [][NextSpeaker]_vars

\* ------------------------------------------------------------------------
\* The monitoring cycle over links whose senders expose an encoding
\* ------------------------------------------------------------------------
\* a session beyond its first ten seconds with both peers connected, their
\* video senders exposing an encoding, nobody heard yet
InitTiers ==
  /\ localStream = TRUE
  /\ isCameraOff = FALSE
  /\ videoTrackEnabled = TRUE
  /\ peerConnections = Peers
  /\ networkStats = EmptyMap
  /\ networkStatsRaw = EmptyMap
  /\ currentVideoQuality = "HIGH"
  /\ isAdaptiveMode = TRUE
  /\ networkMonitoringInterval = TRUE
  /\ initialConnectionPhase = FALSE
  /\ connectionStartTime = Some(0)
  /\ now = MaxNow
  /\ tasks = {}
  /\ isMicMuted = FALSE
  /\ audioTrackEnabled = TRUE
  /\ activeSpeaker = Null
  /\ audioLevels = EmptyMap
  /\ activeSpeakerInterval = TRUE
  /\ encodings = [p \in Peers |-> Some(DefaultEncoding)]
  /\ SignalingIdle /\ ServerIdle

NextApply ==
  \/ MonitorStart
  \/ \E c \in tasks, o \in StatsOutcomes : SampleReturn(c, o)
  \/ \E c \in tasks, ok \in BOOLEAN : AdjustReturn(c, ok)

SpecApply == InitTiers /\ [][NextApply]_vars

\* ------------------------------------------------------------------------
\* Active-speaker tiers against the monitoring cycle
\* ------------------------------------------------------------------------
\* the levels of two participants who speak in turn
TierLevels == {50, 60}

\* a speaker change is followed while fewer than MaxTasks async functions are
\* suspended
NextTiers ==
  \/ \E p \in Peers, level \in TierLevels : AudioLevel(p, level)
  \/ \E order \in Orders(DOMAIN audioLevels) :
       Cardinality(tasks) < MaxTasks /\ UpdateActiveSpeaker(order)
  \/ \E c \in tasks, ok \in BOOLEAN : OptimizeReturn(c, ok)
  \/ MonitorStart
  \/ \E c \in tasks, o \in StatsOutcomes : SampleReturn(c, o)
  \/ \E c \in tasks, ok \in BOOLEAN : AdjustReturn(c, ok)

SpecTiers == InitTiers /\ [][NextTiers]_vars

\* ------------------------------------------------------------------------
\* The monitoring cycle when getStats is rejected
\* ------------------------------------------------------------------------
\* getStats rejects or analyzeStats returns metrics
FailOrMetrics == {o \in StatsOutcomes : ~o.ok \/ o.some}

NextSample ==
  \/ MonitorStart
  \/ \E c \in tasks, o \in FailOrMetrics : SampleReturn(c, o)
  \/ \E c \in tasks, ok \in BOOLEAN : AdjustReturn(c, ok)

SpecSample == InitTiers /\ [][NextSample]_vars

\* ------------------------------------------------------------------------
\* Recovery: every link healthy from the first cycle on
\* ------------------------------------------------------------------------
\* the bitrate the senders can reach at a quality: the maxBitrate
\* adjustVideoQuality sets, and the audio-only range while the video track is
\* disabled
BitrateCap(quality) ==
  CASE quality = "AUDIO_ONLY" -> AudioOnlyFloor
    [] quality = "LOW" -> 200000
    [] quality = "MEDIUM" -> 600000
    [] quality = "HIGH" -> 1200000

\* loss 0%, rtt 50 ms and any bitrate under the cap of the quality in force
RecoverySamples(quality) ==
  {[videoPacketLoss |-> 0, audioPacketLoss |-> 0, rtt |-> 50, totalBitrate |-> b] :
     b \in {v \in BitrateValues : v <= BitrateCap(quality)}}

\* a session beyond its first ten seconds at any quality, adaptive mode on
InitRecover ==
  /\ localStream = TRUE
  /\ isCameraOff = FALSE
  /\ currentVideoQuality \in Qualities
  /\ videoTrackEnabled = (currentVideoQuality # "AUDIO_ONLY")
  /\ peerConnections = Peers
  /\ networkStats = EmptyMap
  /\ networkStatsRaw = EmptyMap
  /\ isAdaptiveMode = TRUE
  /\ networkMonitoringInterval = TRUE
  /\ initialConnectionPhase = FALSE
  /\ connectionStartTime = Some(0)
  /\ now = MaxNow
  /\ tasks = {}
  /\ isMicMuted = FALSE
  /\ audioTrackEnabled = TRUE
  /\ activeSpeaker = Null
  /\ audioLevels = EmptyMap
  /\ activeSpeakerInterval = TRUE
  /\ encodings = [p \in Peers |-> Some(DefaultEncoding)]
  /\ SignalingIdle /\ ServerIdle

\* every getStats gives metrics, every application of a quality succeeds
NextRecover ==
  \/ MonitorStart
  \/ \E c \in tasks, m \in RecoverySamples(currentVideoQuality) :
       SampleReturn(c, [ok |-> TRUE, some |-> TRUE, m |-> m])
  \/ \E c \in tasks : AdjustReturn(c, TRUE)

\* the timer keeps firing and every promise settles
SpecRecover == InitRecover /\ [][NextRecover]_vars /\ WF_vars(NextRecover)

\* ------------------------------------------------------------------------
\* The monitoring cycle with the first snapshot of a link told apart
\* ------------------------------------------------------------------------
\* what getStats and analyzeStats can give for a peer without a previous
\* entry: no deltas, hence both bitrates 0; rtt and the loss seen by the
\* remote side are read from the report itself
FirstOutcomes ==
  {[ok |-> FALSE, some |-> FALSE, m |-> NoSample], [ok |-> TRUE, some |-> FALSE, m |-> NoSample]}
  \cup {[ok |-> TRUE, some |-> TRUE, m |-> s] :
          s \in {[videoPacketLoss |-> 0, audioPacketLoss |-> 0, rtt |-> 50, totalBitrate |-> 0],
                 [videoPacketLoss |-> 0, audioPacketLoss |-> 20, rtt |-> 4000, totalBitrate |-> 0]}}

NextFirst ==
  \/ MonitorStart
  \/ \E c \in tasks :
       \E o \in (IF c.cur \in DOMAIN networkStats THEN StatsOutcomes ELSE FirstOutcomes) :
         SampleReturn(c, o)
  \/ \E c \in tasks, ok \in BOOLEAN : AdjustReturn(c, ok)

SpecFirst == InitTiers /\ [][NextFirst]_vars

\* ------------------------------------------------------------------------
\* Steady links: every cycle measures what the cycle before has measured
\* ------------------------------------------------------------------------
\* a session beyond its first ten seconds at any quality; both links have been
\* analysed, A with any measurement, B with one of the three profiles
InitSteady ==
  /\ localStream = TRUE
  /\ isCameraOff = FALSE
  /\ currentVideoQuality \in Qualities
  /\ videoTrackEnabled = (currentVideoQuality # "AUDIO_ONLY")
  /\ peerConnections = Peers
  /\ \E a \in AllSamples, b \in Samples :
       networkStats = [p \in Peers |-> MetricsOf(FALSE, IF p = "A" THEN a ELSE b)]
  /\ networkStatsRaw = EmptyMap
  /\ isAdaptiveMode = TRUE
  /\ networkMonitoringInterval = TRUE
  /\ initialConnectionPhase = FALSE
  /\ connectionStartTime = Some(0)
  /\ now = MaxNow
  /\ tasks = {}
  /\ isMicMuted = FALSE
  /\ audioTrackEnabled = TRUE
  /\ activeSpeaker = Null
  /\ audioLevels = EmptyMap
  /\ activeSpeakerInterval = TRUE
  /\ encodings = [p \in Peers |-> Some(DefaultEncoding)]
  /\ SignalingIdle /\ ServerIdle

\* getStats gives for every link the metrics its entry holds; every
\* application of a quality succeeds; the timer fires whether or not the run
\* it started before is over
NextSteady ==
  \/ MonitorStartWithin(MaxOverlap)
  \/ \E c \in tasks, m \in AllSamples :
       /\ c.cur \in DOMAIN networkStats
       /\ MetricsOf(FALSE, m) = networkStats[c.cur]
       /\ SampleReturn(c, [ok |-> TRUE, some |-> TRUE, m |-> m])
  \/ \E c \in tasks : AdjustReturn(c, TRUE)

SpecSteady == InitSteady /\ [][NextSteady]_vars

\* ------------------------------------------------------------------------
\* Signaling of the client: offers, answers, reconnects and their timers
\* ------------------------------------------------------------------------
\* RTCPeerConnection objects a session creates at most
MaxConnections == 3

\* the remote participants whose signaling is followed
SignalPeers == {"A"}

\* an element of connections is [id, peer, state, mapped]: the object, the
\* participant it was created for, its connectionState, and whether it is the
\* value peerConnections holds for that participant.
\* an element of pendingCalls is [kind, peer, pc]: pc is the id of the object
\* the callback or the suspended function has captured, 0 where it has none
Call(kind, p, id) == [kind |-> kind, peer |-> p, pc |-> id]

\* the object peerConnections holds for p, as a set of at most one element
Mapped(conns, p) == {c \in conns : c.peer = p /\ c.mapped}

\* createPeerConnection(p), lines 1000 and 1114: a new object is stored under
\* p; what was stored there is neither looked at nor closed
CreatePeerConnection(p) ==
  {[c EXCEPT !.mapped = (c.mapped /\ c.peer # p)] : c \in connections}
  \cup {[id |-> Cardinality(connections) + 1, peer |-> p, state |-> "new", mapped |-> TRUE]}

\* existingPc.close(); peerConnections.delete(p) of reconnectToPeer
CloseAndDelete(conns, p) ==
  {IF c.peer = p /\ c.mapped THEN [c EXCEPT !.state = "closed", !.mapped = FALSE] ELSE c :
     c \in conns}

\* the map after the step holds conns: its keys, and the encodings of the
\* senders, a new object having a new sender
StoreConnections(conns) ==
  LET keys == {c.peer : c \in {d \in conns : d.mapped}}
  IN /\ connections' = conns
     /\ peerConnections' = keys
     /\ encodings' = [q \in keys |->
                        IF q \in DOMAIN encodings /\ Mapped(conns, q) = Mapped(connections, q)
                        THEN encodings[q] ELSE Null]
     /\ tasks' = {[t EXCEPT !.visited = @ \cap keys,
                            !.stale = (@ \/ (t.kind = "sample" /\ t.cur \notin keys))] :
                     t \in tasks}

\* what the signaling leaves alone
SignalingUnchanged ==
  /\ UNCHANGED <<localStream, isCameraOff, videoTrackEnabled, networkStats,
                 networkStatsRaw, currentVideoQuality, isAdaptiveMode,
                 networkMonitoringInterval, initialConnectionPhase,
                 connectionStartTime, now>>
  /\ UNCHANGED <<mediaVars, speakerVars, serverVars>>

\* createOfferFor(p) up to `await pc.createOffer`, rest being the calls that
\* stay pending
CreateOfferFor(p, rest) ==
  /\ Cardinality(connections) < MaxConnections
  /\ participants' = participants \cup {p}
  /\ StoreConnections(CreatePeerConnection(p))
  /\ pendingCalls' = rest \cup {Call("createOffer", p, Cardinality(connections) + 1)}

\* reconnectToPeer(p) up to its await of one second
ReconnectToPeerCall(p, rest) ==
  /\ StoreConnections(CloseAndDelete(connections, p))
  /\ pendingCalls' = rest \cup {Call("reconnectWait", p, 0)}
  /\ UNCHANGED participants

\* a timer set for createOfferFor fires: the staggered offers after
\* room-joined (line 1279) and the retry after a failed offer (line 1396)
CreateOfferTimer(t) ==
  /\ t \in pendingCalls /\ t.kind = "createOfferFor"
  /\ CreateOfferFor(t.peer, pendingCalls \ {t})
  /\ SignalingUnchanged

\* createOffer / setLocalDescription of createOfferFor settle: the offer is
\* sent and the 15 s timer set, or the retry is scheduled; they reject on a
\* closed connection
CreateOfferSettles(t, ok) ==
  /\ t \in pendingCalls /\ t.kind = "createOffer"
  /\ ok => \E c \in connections : c.id = t.pc /\ c.state # "closed"
  /\ pendingCalls' = (pendingCalls \ {t})
                       \cup {IF ok THEN Call("offerTimeout", t.peer, t.pc)
                             ELSE Call("createOfferFor", t.peer, 0)}
  /\ UNCHANGED <<participants, connections, peerConnections, encodings, tasks>>
  /\ SignalingUnchanged

\* the 15 s timer of createOfferFor fires (lines 1385-1390): pc is the object
\* the offer was created on
OfferTimeout(t) ==
  /\ t \in pendingCalls /\ t.kind = "offerTimeout"
  /\ IF \E c \in connections : c.id = t.pc /\ c.state = "new"
     THEN ReconnectToPeerCall(t.peer, pendingCalls \ {t})
     ELSE /\ pendingCalls' = pendingCalls \ {t}
          /\ UNCHANGED <<participants, connections, peerConnections, encodings, tasks>>
  /\ SignalingUnchanged

\* pc.onconnectionstatechange of object c: connected, or failed /
\* disconnected, which sets the 3 s timer when the participant is known
ConnectionStateChange(c, state) ==
  /\ c \in connections /\ c.state # "closed" /\ c.state # state
  /\ connections' = (connections \ {c}) \cup {[c EXCEPT !.state = state]}
  /\ pendingCalls' = IF state = "failed" /\ c.peer \in participants
                      THEN pendingCalls \cup {Call("reconnectTimer", c.peer, c.id)}
                      ELSE pendingCalls
  /\ UNCHANGED <<participants, peerConnections, encodings, tasks>>
  /\ SignalingUnchanged

\* the 3 s timer of onconnectionstatechange fires (lines 1041-1044)
ReconnectTimer(t) ==
  /\ t \in pendingCalls /\ t.kind = "reconnectTimer"
  /\ ReconnectToPeerCall(t.peer, pendingCalls \ {t})
  /\ SignalingUnchanged

\* reconnectToPeer goes on after its await (lines 1344-1347)
ReconnectResumes(t) ==
  /\ t \in pendingCalls /\ t.kind = "reconnectWait"
  /\ IF t.peer \in participants /\ localStream
     THEN CreateOfferFor(t.peer, pendingCalls \ {t})
     ELSE /\ pendingCalls' = pendingCalls \ {t}
          /\ UNCHANGED <<participants, connections, peerConnections, encodings, tasks>>
  /\ SignalingUnchanged

\* the server forwards an offer of p to this client: the message is on its way
RemoteOffer(p) ==
  /\ localStream
  /\ pendingCalls' = pendingCalls \cup {Call("offer", p, 0)}
  /\ UNCHANGED <<participants, connections, peerConnections, encodings, tasks>>
  /\ SignalingUnchanged

\* ws.onmessage 'offer': handleOffer up to `await pc.setRemoteDescription`
HandleOffer(t) ==
  /\ t \in pendingCalls /\ t.kind = "offer"
  /\ Cardinality(connections) < MaxConnections
  /\ participants' = participants \cup {t.peer}
  /\ StoreConnections(CreatePeerConnection(t.peer))
  /\ pendingCalls' = (pendingCalls \ {t})
                       \cup {Call("handleOffer", t.peer, Cardinality(connections) + 1)}
  /\ SignalingUnchanged

\* setRemoteDescription / createAnswer / setLocalDescription of handleOffer
\* settle: the answer is sent, or (lines 1438-1444) pc is closed, the entry
\* of the participant deleted and connection-failed sent
HandleOfferSettles(t, ok) ==
  /\ t \in pendingCalls /\ t.kind = "handleOffer"
  /\ ok => \E c \in connections : c.id = t.pc /\ c.state # "closed"
  /\ IF ok
     THEN UNCHANGED <<connections, peerConnections, encodings, tasks>>
     ELSE StoreConnections({IF c.id = t.pc THEN [c EXCEPT !.state = "closed", !.mapped = FALSE]
                            ELSE [c EXCEPT !.mapped = (c.mapped /\ c.peer # t.peer)] :
                              c \in connections})
  /\ pendingCalls' = pendingCalls \ {t}
  /\ UNCHANGED participants
  /\ SignalingUnchanged

\* ws.onmessage 'user-joined'
UserJoined(p) ==
  /\ localStream
  /\ p \notin participants
  /\ participants' = participants \cup {p}
  /\ UNCHANGED <<connections, pendingCalls, peerConnections, encodings, tasks>>
  /\ SignalingUnchanged

\* a joined session whose room-joined message has just been handled: the
\* timers for the offers to the users of the room are set (lines 1273-1283)
InitSignal ==
  /\ localStream = TRUE
  /\ isCameraOff = FALSE
  /\ videoTrackEnabled = TRUE
  /\ peerConnections = {}
  /\ networkStats = EmptyMap
  /\ networkStatsRaw = EmptyMap
  /\ currentVideoQuality = "HIGH"
  /\ isAdaptiveMode = TRUE
  /\ networkMonitoringInterval = TRUE
  /\ initialConnectionPhase = TRUE
  /\ connectionStartTime = Some(0)
  /\ now = 0
  /\ tasks = {}
  /\ isMicMuted = FALSE
  /\ audioTrackEnabled = TRUE
  /\ activeSpeaker = Null
  /\ audioLevels = EmptyMap
  /\ activeSpeakerInterval = TRUE
  /\ encodings = EmptyMap
  /\ participants = {}
  /\ connections = {}
  /\ \E S \in SUBSET SignalPeers : pendingCalls = {Call("createOfferFor", p, 0) : p \in S}
  /\ ServerIdle

NextSignal ==
  \/ \E t \in pendingCalls : CreateOfferTimer(t)
  \/ \E t \in pendingCalls, ok \in BOOLEAN : CreateOfferSettles(t, ok)
  \/ \E t \in pendingCalls : OfferTimeout(t)
  \/ \E c \in connections, state \in {"connected", "failed"} : ConnectionStateChange(c, state)
  \/ \E t \in pendingCalls : ReconnectTimer(t)
  \/ \E t \in pendingCalls : ReconnectResumes(t)
  \/ \E p \in SignalPeers : RemoteOffer(p)
  \/ \E t \in pendingCalls : HandleOffer(t)
  \/ \E t \in pendingCalls, ok \in BOOLEAN : HandleOfferSettles(t, ok)
  \/ \E p \in SignalPeers : UserJoined(p)
  \/ \E p \in SignalPeers : UserLeft(p)
  \/ Leave

SpecSignal == InitSignal /\ [][NextSignal]_vars

\* ------------------------------------------------------------------------
\* Active speaker and the participants map
\* ------------------------------------------------------------------------
\* a joined session with every remote participant present and connected to
\* the peers; only a participant that has not been removed reports levels,
\* Participant.remove setting audioAnalyser to null (lines 163, 199)
InitPresence ==
  /\ localStream = TRUE
  /\ isCameraOff = FALSE
  /\ videoTrackEnabled = TRUE
  /\ peerConnections = Peers
  /\ networkStats = EmptyMap
  /\ networkStatsRaw = EmptyMap
  /\ currentVideoQuality = "HIGH"
  /\ isAdaptiveMode = TRUE
  /\ networkMonitoringInterval = TRUE
  /\ initialConnectionPhase = TRUE
  /\ connectionStartTime = Some(0)
  /\ now = 0
  /\ tasks = {}
  /\ isMicMuted = FALSE
  /\ audioTrackEnabled = TRUE
  /\ activeSpeaker = Null
  /\ audioLevels = EmptyMap
  /\ activeSpeakerInterval = TRUE
  /\ encodings = [p \in Peers |-> Null]
  /\ participants = RemoteParticipants
  /\ connections = {[id |-> IF p = "A" THEN 1 ELSE 2, peer |-> p,
                      state |-> "connected", mapped |-> TRUE] : p \in Peers}
  /\ pendingCalls = {}
  /\ ServerIdle

NextPresence ==
  \/ \E p \in participants, level \in LevelValues : AudioLevel(p, level)
  \/ \E d \in ElapseValues : Elapse(d)
  \/ \E order \in Orders(DOMAIN audioLevels) : UpdateActiveSpeaker(order)
  \/ \E p \in participants : UserLeft(p)

SpecPresence == InitPresence /\ [][NextPresence]_vars

\* ------------------------------------------------------------------------
\* The signaling server
\* ------------------------------------------------------------------------
\* sockets the server accepts at most; a socket is its user's id, the uuid
\* being drawn once per connection
MaxSockets == 3
Sockets == 1..MaxSockets
RoomIds == {"default", "side"}

\* what a client sends: join-room with a room, leave-room, and the messages
\* that name a target
ClientMessages ==
  {[type |-> "join-room", room |-> r, targetId |-> 0] : r \in RoomIds}
  \cup {[type |-> "leave-room", room |-> "", targetId |-> 0]}
  \cup {[type |-> t, room |-> "", targetId |-> x] :
          t \in {"offer", "answer", "candidate", "connection-failed"}, x \in Sockets}

\* variant: the room a user leaves is kept when it becomes empty
LeftRooms_KeepsEmptyRoom(rs, us, ws) ==
  IF us[ws] = Null \/ us[ws][1] \notin DOMAIN rs THEN rs
  ELSE [rs EXCEPT ![us[ws][1]] = @ \ {ws}]

\* the rooms map after handleLeaveRoom(ws, user)
LeftRooms(rs, us, ws) ==
  IF us[ws] = Null \/ us[ws][1] \notin DOMAIN rs THEN rs
  ELSE LET r == us[ws][1]
       IN IF rs[r] \ {ws} = {} THEN [q \in (DOMAIN rs) \ {r} |-> rs[q]]
          ELSE [rs EXCEPT ![r] = @ \ {ws}]

\* the user-left notices handleLeaveRoom(ws, user) sends
LeftNotices(rs, us, ws) ==
  IF us[ws] = Null \/ us[ws][1] \notin DOMAIN rs THEN {}
  ELSE {[to |-> c, type |-> "user-left", id |-> ws] :
          c \in {d \in rs[us[ws][1]] \ {ws} : readyState[d] = "open"}}

\* handleLeaveRoom(ws, user)
HandleLeaveRoom(ws) ==
  /\ rooms' = LeftRooms(rooms, users, ws)
  /\ users' = [users EXCEPT ![ws] = Null]
  /\ sent' = LeftNotices(rooms, users, ws)

\* handleJoinRoom(ws, user, roomId)
HandleJoinRoom(ws, roomId) ==
  LET left == LeftRooms(rooms, users, ws)
      room == (IF roomId \in DOMAIN left THEN left[roomId] ELSE {}) \cup {ws}
  IN /\ rooms' = [q \in (DOMAIN left) \cup {roomId} |-> IF q = roomId THEN room ELSE left[q]]
     /\ users' = [users EXCEPT ![ws] = Some(roomId)]
     /\ sent' = LeftNotices(rooms, users, ws)
                  \cup {[to |-> ws, type |-> "room-joined", id |-> ws]}
                  \cup {[to |-> c, type |-> "user-joined", id |-> ws] :
                          c \in {d \in room \ {ws} : readyState[d] = "open"}}

\* findUserByIdInRoom(roomId, userId), as a set of at most one socket
FindUserByIdInRoom(room, userId) ==
  IF room = Null \/ room[1] \notin DOMAIN rooms THEN {}
  ELSE {c \in rooms[room[1]] : c \in DOMAIN users /\ c = userId}

\* the client side is not followed while the server is
ClientUnchanged ==
  /\ UNCHANGED <<localStream, isCameraOff, videoTrackEnabled, peerConnections,
                 networkStats, networkStatsRaw, currentVideoQuality, isAdaptiveMode,
                 networkMonitoringInterval, initialConnectionPhase,
                 connectionStartTime, now, tasks, encodings>>
  /\ UNCHANGED <<mediaVars, speakerVars, signalVars>>

\* wss.on("connection")
Connection(ws) ==
  /\ ws \notin DOMAIN readyState
  /\ readyState' = [c \in (DOMAIN readyState) \cup {ws} |->
                       IF c = ws THEN "open" ELSE readyState[c]]
  /\ users' = [c \in (DOMAIN users) \cup {ws} |-> IF c = ws THEN Null ELSE users[c]]
  /\ UNCHANGED <<rooms, sent>>
  /\ ClientUnchanged

\* ws.on("message")
ServerMessage(ws, data) ==
  /\ ws \in DOMAIN readyState /\ readyState[ws] = "open"
  /\ ws \in DOMAIN users
  /\ CASE data.type = "join-room" -> HandleJoinRoom(ws, data.room)
       [] data.type \in {"offer", "answer", "candidate"} ->
            /\ sent' = {[to |-> c, type |-> data.type, id |-> ws] :
                          c \in FindUserByIdInRoom(users[ws], data.targetId)}
            /\ UNCHANGED <<users, rooms>>
       [] data.type = "leave-room" -> HandleLeaveRoom(ws)
       [] OTHER -> /\ sent' = {}
                   /\ UNCHANGED <<users, rooms>>
  /\ UNCHANGED readyState
  /\ ClientUnchanged

\* the connection of a socket goes down: readyState leaves OPEN before the
\* close event is dispatched
SocketClosing(ws) ==
  /\ ws \in DOMAIN readyState /\ readyState[ws] = "open"
  /\ readyState' = [readyState EXCEPT ![ws] = "closing"]
  /\ UNCHANGED <<users, rooms, sent>>
  /\ ClientUnchanged

\* ws.on("close")
SocketClose(ws) ==
  /\ ws \in DOMAIN readyState /\ readyState[ws] = "closing"
  /\ readyState' = [readyState EXCEPT ![ws] = "closed"]
  /\ IF ws \in DOMAIN users
     THEN /\ rooms' = LeftRooms(rooms, users, ws)
          /\ sent' = LeftNotices(rooms, users, ws)
          /\ users' = [c \in (DOMAIN users) \ {ws} |-> users[c]]
     ELSE UNCHANGED <<users, rooms, sent>>
  /\ ClientUnchanged

\* the server has started, no client has joined a call
InitServer ==
  /\ localStream = FALSE
  /\ isCameraOff = FALSE
  /\ videoTrackEnabled = FALSE
  /\ peerConnections = {}
  /\ networkStats = EmptyMap
  /\ networkStatsRaw = EmptyMap
  /\ currentVideoQuality = "HIGH"
  /\ isAdaptiveMode = TRUE
  /\ networkMonitoringInterval = FALSE
  /\ initialConnectionPhase = TRUE
  /\ connectionStartTime = Null
  /\ now = 0
  /\ tasks = {}
  /\ isMicMuted = FALSE
  /\ audioTrackEnabled = FALSE
  /\ activeSpeaker = Null
  /\ audioLevels = EmptyMap
  /\ activeSpeakerInterval = FALSE
  /\ encodings = EmptyMap
  /\ SignalingIdle
  /\ ServerIdle

NextServer ==
  \/ \E ws \in Sockets : Connection(ws)
  \/ \E ws \in Sockets, data \in ClientMessages : ServerMessage(ws, data)
  \/ \E ws \in Sockets : SocketClosing(ws)
  \/ \E ws \in Sockets : SocketClose(ws)

SpecServer == InitServer /\ [][NextServer]_vars

\* ------------------------------------------------------------------------
\* Vocabulary of the properties
\* ------------------------------------------------------------------------
\* AUDIO_ONLY < LOW < MEDIUM < HIGH
Rank(q) ==
  CASE q = "AUDIO_ONLY" -> 0 [] q = "LOW" -> 1 [] q = "MEDIUM" -> 2 [] q = "HIGH" -> 3

\* Math.max(metrics.videoPacketLoss, metrics.audioPacketLoss)
LinkLoss(m) == Max(m.videoPacketLoss, m.audioPacketLoss)

\* the for-loop of monitorNetworkQuality has no further peer after c.cur
CycleEnds(c) ==
  peerConnections \ (IF c.stale THEN c.visited ELSE c.visited \cup {c.cur}) = {}

\* a step in which monitorNetworkQuality reaches `await adaptToNetworkConditions()`,
\* the last getStats having settled with one of `outcomes`; the map the call
\* reads is networkStats'
AdaptCallIn(outcomes) ==
  \/ /\ peerConnections = {} /\ DOMAIN networkStats # {}
     /\ MonitorStart
  \/ \E c \in tasks :
       /\ c.kind = "sample" /\ c \notin tasks'
       /\ CycleEnds(c) /\ DOMAIN networkStats' # {}
       /\ \E o \in outcomes : SampleReturn(c, o)

AdaptCall == AdaptCallIn(StatsOutcomes)

\* a step of a monitoring cycle, the application of its decision included
CycleStep ==
  \/ MonitorStart
  \/ \E c \in tasks, o \in StatsOutcomes : SampleReturn(c, o)
  \/ \E c \in tasks, ok \in BOOLEAN : c.origin = "cycle" /\ AdjustReturn(c, ok)

\* no adjustment decided by a cycle is suspended
NoCycleAdjust(ts) == \A t \in ts : ~(t.kind = "adjust" /\ t.origin = "cycle")

\* the step suspends no adjustment that was not suspended before it
NoNewAdjust == \A t \in tasks' : t.kind = "adjust" => t \in tasks

\* less than 10 s since connectionStartTime
InFirstTenSeconds ==
  connectionStartTime # Null /\ now - connectionStartTime[1] < GracePeriodMs

\* ------------------------------------------------------------------------
\* Properties
\* ------------------------------------------------------------------------

\* the aggregate of networkStats allows the recovery out of audio-only: no
\* verdict AUDIO_ONLY, loss at most 10%, rtt at most 1000 ms
RecoveryInput(stats) ==
  /\ DOMAIN stats # {}
  /\ \A p \in DOMAIN stats :
       /\ stats[p].quality # "AUDIO_ONLY"
       /\ LinkLoss(stats[p]) <= 10
       /\ stats[p].rtt <= 1000

\* the adjustments the step suspends
NewAdjusts == {t \in tasks' \ tasks : t.kind = "adjust"}

\* C1: when a monitoring cycle reaches its decision while the quality is
\* AUDIO_ONLY, whatever the links have measured, the decision leaves the
\* quality at AUDIO_ONLY or starts the adjustment to LOW and to nothing else:
\* the cycle ends at AUDIO_ONLY or at LOW, never at MEDIUM or HIGH.
C1_AudioOnlyStepsToLow ==
  [][(/\ currentVideoQuality = "AUDIO_ONLY"
      /\ \/ currentVideoQuality' # "AUDIO_ONLY"
         \/ \E t \in NewAdjusts : t.quality # "LOW" \/ t.origin # "cycle")
     => ~AdaptCallIn(AllOutcomes)]_vars

\* C1 witness: audio-only while every link is healthy (verdict HIGH, loss
\* below 2%, rtt below 150 ms) and the cycle has started the adjustment to LOW.
C1_Witness ==
  /\ currentVideoQuality = "AUDIO_ONLY"
  /\ DOMAIN networkStats = Peers
  /\ \A p \in Peers :
       /\ networkStats[p].quality = "HIGH"
       /\ LinkLoss(networkStats[p]) < 2 /\ networkStats[p].rtt < 150
  /\ \E t \in tasks : t.kind = "adjust" /\ t.origin = "cycle" /\ t.quality = "LOW"

C4_NoTransitionInGrace ==
  [][(initialConnectionPhase /\ InFirstTenSeconds /\ CycleStep)
     => currentVideoQuality' = currentVideoQuality]_vars

\* C5: during the first 10 seconds after connectionStartTime every verdict in
\* networkStats is HIGH, whatever loss and rtt are stored with it.
C5_GraceVerdictHigh ==
  InFirstTenSeconds => \A p \in DOMAIN networkStats : networkStats[p].quality = "HIGH"

\* C5 witness: within the first 10 seconds a link measured at a loss above 15%
\* and an rtt above 500 ms carries the verdict HIGH.
C5_Witness ==
  /\ InFirstTenSeconds
  /\ \E p \in DOMAIN networkStats :
       /\ LinkLoss(networkStats[p]) > 15 /\ networkStats[p].rtt > 500
       /\ networkStats[p].quality = "HIGH"

C7_DisableForcesHigh ==
  [][(ToggleAdaptive /\ isAdaptiveMode /\ currentVideoQuality # "HIGH")
     => \/ currentVideoQuality' = "HIGH"
        \/ \E t \in tasks' : t.kind = "adjust" /\ t.origin = "toggle"]_vars

C9_NoReapplication ==
  [][(/\ \/ currentVideoQuality' # currentVideoQuality
         \/ videoTrackEnabled' # videoTrackEnabled
         \/ ~NoNewAdjust
      /\ LET agg == Aggregate(networkStats')
         IN TargetQuality(currentVideoQuality, agg.worstQuality,
                          agg.maxPacketLoss, agg.maxRtt) = currentVideoQuality)
     => ~AdaptCall]_vars

\* C9 witness: a running adaptation at the quality MEDIUM it reached earlier,
\* with links whose aggregate keeps the target at MEDIUM, nothing suspended.
C9_Witness ==
  /\ localStream /\ isAdaptiveMode /\ ~initialConnectionPhase
  /\ currentVideoQuality = "MEDIUM"
  /\ tasks = {}
  /\ peerConnections # {} /\ DOMAIN networkStats = peerConnections
  /\ LET agg == Aggregate(networkStats)
     IN TargetQuality("MEDIUM", agg.worstQuality, agg.maxPacketLoss, agg.maxRtt) = "MEDIUM"

\* C10: the videoPacketLoss and the audioPacketLoss of every entry analyzeStats
\* has stored lie between 0 and 50 percent, whatever counters the reports
\* carried.
C10_LossWithinCap ==
  \A p \in DOMAIN networkStatsRaw :
    /\ ~Lt(networkStatsRaw[p].videoPacketLoss, Whole(0))
    /\ ~Lt(Whole(LossCap), networkStatsRaw[p].videoPacketLoss)
    /\ ~Lt(networkStatsRaw[p].audioPacketLoss, Whole(0))
    /\ ~Lt(Whole(LossCap), networkStatsRaw[p].audioPacketLoss)

\* C10 witness: an entry computed against a previous report whose video loss
\* stands at the cap; no report measures 50% exactly, so a larger loss was cut.
C10_Witness ==
  \E p \in DOMAIN networkStatsRaw :
    /\ networkStatsRaw[p].videoPacketLoss = Whole(LossCap)
    /\ networkStatsRaw[p].outboundVideo # Null

C12_AudioOnlyTrackOff ==
  currentVideoQuality = "AUDIO_ONLY" => ~videoTrackEnabled

\* C13: in every state of a session the outbound audio track is enabled
\* exactly when the user has not muted the microphone.
C13_AudioFollowsMute ==
  localStream => (audioTrackEnabled <=> ~isMicMuted)

\* C14: in every state of a session in which isCameraOff is true the outbound
\* video track is disabled.
C14_CameraOffTrackOff ==
  (localStream /\ isCameraOff) => ~videoTrackEnabled

\* C15: from a leave until the next join both timers are cancelled,
\* networkStats is empty, the quality is HIGH and the initial phase is armed
\* again with no start time, also when a cycle or an adjustment was awaiting
\* at the moment of leaving.
C15_QuietAfterLeave ==
  ~localStream =>
    /\ ~networkMonitoringInterval /\ ~activeSpeakerInterval
    /\ networkStats = EmptyMap
    /\ currentVideoQuality = "HIGH"
    /\ initialConnectionPhase /\ connectionStartTime = Null

\* C16: at most one run of monitorNetworkQuality, its adjustments included,
\* is in progress in any state: no run starts sampling before the previous
\* one has run to completion.
C16_CyclesNeverOverlap ==
  Cardinality({t \in tasks : t.origin = "cycle"}) <= 1

\* the participants whose level is less than 2 seconds old and above the
\* threshold, and the loudest of them
Qualifying ==
  {p \in DOMAIN audioLevels :
     /\ now - audioLevels[p].timestamp < StaleAfterMs
     /\ audioLevels[p].level > AUDIO_LEVEL_THRESHOLD}
Loudest ==
  {p \in Qualifying : \A q \in Qualifying : audioLevels[p].level >= audioLevels[q].level}
ActiveSpeakerTick == \E order \in Orders(DOMAIN audioLevels) : UpdateActiveSpeaker(order)

\* C17: at every tick of the active-speaker timer at which some participant
\* has a level less than 2 seconds old and above the threshold, the speaker
\* the tick selects is one with the highest level among those participants;
\* an older entry is never selected, whatever its level.
C17_LoudestRecentSpeaker ==
  /\ [](activeSpeakerInterval /\ Qualifying # {} =>
          \A order \in Orders(DOMAIN audioLevels) :
            SpeakerAfterTick(order) \in {Some(p) : p \in Loudest})
  /\ [][(Qualifying # {} /\ activeSpeaker' \notin {Some(p) : p \in Loudest})
         => ~ActiveSpeakerTick]_vars

\* C17 witness: A at 0.02 and B at 0.6 heard within the last 2 seconds, C at
\* 0.5 heard 2 seconds ago or earlier, and the tick has selected B.
C17_Witness ==
  /\ DOMAIN audioLevels = RemoteParticipants
  /\ audioLevels["A"].level = 2 /\ now - audioLevels["A"].timestamp < StaleAfterMs
  /\ audioLevels["B"].level = 60 /\ now - audioLevels["B"].timestamp < StaleAfterMs
  /\ audioLevels["C"].level = 50 /\ now - audioLevels["C"].timestamp >= StaleAfterMs
  /\ activeSpeaker = Some("B")

\* C18: in every state in which the active-speaker timer is set and no
\* participant has a level that is both recent and above the threshold, no
\* level being tracked at all included, the tick leaves activeSpeaker null.
C18_NobodyQualifiesNull ==
  (activeSpeakerInterval /\ Qualifying = {}) =>
    \A order \in Orders(DOMAIN audioLevels) : SpeakerAfterTick(order) = Null

\* C19: in every state with an active speaker, adaptive mode on and no
\* adaptation or tier application in progress, the encoding of the link to
\* the active speaker is 1.2 Mbps, priority high, 30 fps and the encoding of
\* every other link is 300 kbps, priority medium, 15 fps.
C19_SpeakerTiers ==
  (activeSpeaker # Null /\ isAdaptiveMode /\ tasks = {}) =>
    \A p \in peerConnections :
      encodings[p] # Null =>
        encodings[p][1] =
          IF activeSpeaker = Some(p)
          THEN [maxBitrate |-> 1200000, priority |-> "high", maxFramerate |-> 30]
          ELSE [maxBitrate |-> 300000, priority |-> "medium", maxFramerate |-> 15]

\* C20: when the application of a quality to one link is rejected and the run
\* of adjustVideoQualityForAllPeers has further links to go, the run goes on
\* to one of them with the same quality and the remaining links; the failure
\* does not end the run.
C20_FailureIsolated ==
  [][\A c \in tasks :
       (/\ c.kind = "adjust" /\ c.rest # {} /\ c \notin tasks'
        /\ ~\E t \in tasks' :
              /\ t.kind = "adjust" /\ t.quality = c.quality /\ t.origin = c.origin
              /\ t.cur \in c.rest /\ t.rest = c.rest \ {t.cur})
       => ~AdjustReturn(c, FALSE)]_vars

\* C20 witness: a run to MEDIUM is over; no encoding was ever written on the
\* link to A, whose applications were all rejected, and the link to B holds
\* the encoding of MEDIUM.
C20_Witness ==
  /\ tasks = {} /\ activeSpeaker = Null
  /\ peerConnections = Peers
  /\ encodings["A"] = Some(DefaultEncoding)
  /\ encodings["B"] # Null /\ encodings["B"][1].maxBitrate = 600000
  /\ currentVideoQuality = "MEDIUM"

\* C21: when getStats is rejected for a link, the run of monitorNetworkQuality
\* goes on: with links left to visit it awaits getStats of one of them, and
\* after the last link it aggregates the entries networkStats holds and takes
\* the decision of the rule table; networkStats itself is left as it was.
C21_SamplingGoesOn ==
  [][\A c \in tasks :
       (/\ c.kind = "sample" /\ c \notin tasks'
        /\ LET visited == IF c.stale THEN c.visited ELSE c.visited \cup {c.cur}
               agg == Aggregate(networkStats)
               target == TargetQuality(currentVideoQuality, agg.worstQuality,
                                       agg.maxPacketLoss, agg.maxRtt)
           IN ~(/\ networkStats' = networkStats
                /\ IF peerConnections \ visited # {}
                   THEN \E t \in tasks' :
                          /\ t.kind = "sample" /\ t.visited = visited
                          /\ t.cur \in peerConnections \ visited
                   ELSE (DOMAIN networkStats # {} /\ localStream /\ isAdaptiveMode) =>
                          IF target = currentVideoQuality
                          THEN NewAdjusts = {} /\ currentVideoQuality' = currentVideoQuality
                          ELSE IF target = "AUDIO_ONLY"
                          THEN currentVideoQuality' = "AUDIO_ONLY"
                          ELSE \E t \in tasks' :
                                 /\ t.kind = "adjust"
                                 /\ t.quality = target /\ t.origin = "cycle"))
       => ~SampleReturn(c, [ok |-> FALSE, some |-> FALSE, m |-> NoSample])]_vars

\* C21 witness: getStats of A has been rejected in every cycle, so that A has
\* no entry; B was analysed with moderate loss and the aggregation over B's
\* entry has brought the quality from HIGH to MEDIUM.
C21_Witness ==
  /\ tasks = {}
  /\ peerConnections = Peers
  /\ DOMAIN networkStats = {"B"}
  /\ networkStats["B"].quality = "MEDIUM"
  /\ currentVideoQuality = "MEDIUM"

\* C22: isAdaptiveMode changes only in the step that starts a monitoring
\* cycle, and currentVideoQuality changes only in a step of a monitoring
\* cycle; no other step writes either of them.
C22_SingleWriter ==
  [][/\ isAdaptiveMode' # isAdaptiveMode => MonitorStart
     /\ currentVideoQuality' # currentVideoQuality => CycleStep]_vars

\* C23: at the start of every monitoring cycle every entry of networkStats
\* belongs to a peer that has a connection in peerConnections.
C23_StatsOfConnectedPeers ==
  [][~(DOMAIN networkStats \subseteq peerConnections) => ~MonitorStart]_vars

\* C24: no step of a monitoring cycle raises currentVideoQuality by more than
\* one level of AUDIO_ONLY, LOW, MEDIUM, HIGH.
C24_OneLevelUp ==
  [][Rank(currentVideoQuality') <= Rank(currentVideoQuality) + 1]_vars

\* C25: a monitoring cycle decides to raise the quality only when good
\* conditions were measured in the cycle before as well: the link whose
\* measurement ends the cycle already had an entry, stored by the previous
\* cycle, whose verdict was at least the level the cycle raises to.
C25_UpgradeNeedsTwoGoodCycles ==
  [][\A t \in NewAdjusts :
       (t.origin = "cycle" /\ Rank(t.quality) > Rank(currentVideoQuality)) =>
         \A c \in tasks \ tasks' :
           c.kind = "sample" =>
             /\ c.cur \in DOMAIN networkStats
             /\ Rank(networkStats[c.cur].quality) >= Rank(t.quality)]_vars

\* C26: with adaptive mode on and every link measuring loss 0% and rtt 50 ms
\* in every cycle, whatever bitrate under the cap in force is measured, the
\* quality eventually is HIGH, from any starting level.
C26_EventuallyHigh ==
  <>(currentVideoQuality = "HIGH")

\* C27: when a cycle reaches its decision, the target it chooses (the quality
\* it starts to apply, or the current quality when it applies none) is the
\* result of the ordered table over the aggregate of networkStats in which a
\* rule is taken only when its condition and its guard on the current quality
\* both hold, and the next rule is tried otherwise.
C27_GuardedFirstMatch ==
  [][AdaptCallIn(AllOutcomes) =>
       LET agg == Aggregate(networkStats')
           current == currentVideoQuality
           worst == agg.worstQuality
           loss == agg.maxPacketLoss
           rtt == agg.maxRtt
           table ==
             IF worst = "AUDIO_ONLY" \/ loss > 15 \/ rtt > 3000 THEN "AUDIO_ONLY"
             ELSE IF current = "AUDIO_ONLY" /\ loss <= 10 /\ rtt <= 1000 THEN "LOW"
             ELSE IF (worst = "LOW" \/ loss > 8 \/ rtt > 500) /\ current # "AUDIO_ONLY"
                  THEN "LOW"
             ELSE IF (worst = "MEDIUM" \/ loss > 3 \/ rtt > 200)
                     /\ current \in {"HIGH", "LOW"}
                  THEN "MEDIUM"
             ELSE IF loss < 2 /\ rtt < 150 THEN "HIGH"
             ELSE current
           target ==
             IF NewAdjusts # {} THEN (CHOOSE t \in NewAdjusts : TRUE).quality
             ELSE currentVideoQuality'
       IN target = table]_vars

\* C28: whenever analyzeStats stores an entry for a report whose video
\* counters span fewer than 100 packets, both in the remote-inbound report and
\* in the delta of the outbound counters, the video loss of the entry is 0.
C28_MinimumWindow ==
  [][\A report \in EarlyReports :
       (AnalyzeAndStore("A", report) /\ ~NoRtp(report)) =>
         LET r == report.remoteInboundVideo
             remoteWindow ==
               IF r = Null THEN 0
               ELSE Field(r[1], "packetsLost") + Field(r[1], "packetsReceived")
             outboundWindow ==
               IF /\ report.outboundVideo # Null
                  /\ "A" \in DOMAIN networkStatsRaw
                  /\ networkStatsRaw["A"].outboundVideo # Null
               THEN report.outboundVideo[1].packetsSent
                      - networkStatsRaw["A"].outboundVideo[1].packetsSent
               ELSE 0
         IN (remoteWindow < 100 /\ outboundWindow < 100) =>
              networkStatsRaw'["A"].videoPacketLoss[1] = 0]_vars

\* C30: the videoBitrate and the audioBitrate of every entry analyzeStats has
\* stored over a positive time span are not negative, also when the bytesSent
\* of the report is below the one of the previous snapshot.
C30_BitrateNotNegative ==
  \A p \in DOMAIN networkStatsRaw :
    /\ networkStatsRaw[p].videoBitrate[2] > 0 => networkStatsRaw[p].videoBitrate[1] >= 0
    /\ networkStatsRaw[p].audioBitrate[2] > 0 => networkStatsRaw[p].audioBitrate[1] >= 0

\* C29: when a cycle reaches its decision in the step that stores the first
\* entry of a peer, the worstQuality, the maxPacketLoss and the maxRtt the
\* decision reads are the ones of the other entries alone.
C29_FirstTickNoVerdict ==
  [][\A p \in DOMAIN networkStats' \ DOMAIN networkStats :
       AdaptCallIn(StatsOutcomes \cup FirstOutcomes) =>
         LET all == Aggregate(networkStats')
             rest == Aggregate([q \in DOMAIN networkStats |-> networkStats'[q]])
         IN /\ all.worstQuality = rest.worstQuality
            /\ all.maxPacketLoss = rest.maxPacketLoss
            /\ all.maxRtt = rest.maxRtt]_vars

\* C31: whenever analyzeStats stores an entry for a report that carries no
\* remote-inbound and no inbound counters for video, the video loss of the
\* entry is the loss of the outbound deltas (packetsLost delta over packetsSent
\* delta, within the cap), whatever the report carries for audio.
C31_SenderLossPerKind ==
  [][\A report \in Reports :
       (/\ report.remoteInboundVideo = Null
        /\ report.inboundVideo = Null
        /\ ~NoRtp(report)
        /\ AnalyzeAndStore("A", report)) =>
         LET prevVideo == IF "A" \in DOMAIN networkStatsRaw
                          THEN networkStatsRaw["A"].outboundVideo ELSE Null
             sender == CapLoss(OutboundLoss(report.outboundVideo, prevVideo))
             stored == networkStatsRaw'["A"].videoPacketLoss
         IN stored[1] * sender[2] = sender[1] * stored[2]]_vars

\* C32: when the getStats of the last link of a cycle is rejected or gives no
\* usable report, the worstQuality, the maxPacketLoss and the maxRtt the
\* decision of the cycle reads are the ones of the other peers' entries alone:
\* an entry an earlier cycle stored for that peer does not count.
C32_FailedPeerSkipped ==
  [][\A c \in tasks :
       (/\ c.kind = "sample" /\ ~c.stale /\ CycleEnds(c)
        /\ c.cur \in DOMAIN networkStats
        /\ \E o \in StatsOutcomes : ~(o.ok /\ o.some) /\ SampleReturn(c, o)) =>
         LET all == Aggregate(networkStats')
             rest == Aggregate([q \in DOMAIN networkStats \ {c.cur} |-> networkStats'[q]])
         IN /\ all.worstQuality = rest.worstQuality
            /\ all.maxPacketLoss = rest.maxPacketLoss
            /\ all.maxRtt = rest.maxRtt]_vars

\* C33: once a run of adjustVideoQualityForAllPeers is over and
\* currentVideoQuality is LOW or MEDIUM, every link carries the encoding of
\* that quality: the quality was applied on every link before it was claimed.
C33_ClaimedIsApplied ==
  (tasks = {} /\ currentVideoQuality \in {"LOW", "MEDIUM"}) =>
    \A p \in peerConnections :
      /\ encodings[p] # Null
      /\ encodings[p][1].maxBitrate = BitrateCap(currentVideoQuality)

\* C34: while every cycle measures the same on every link, and so aggregates
\* the same worstQuality, maxPacketLoss and maxRtt, currentVideoQuality does
\* not oscillate: once it is at the level the rule table maps to itself under
\* that aggregate, the fixed point, it stays there.
C34_SteadyWithinTwoCycles ==
  [][(LET agg == Aggregate(networkStats)
      IN TargetQuality(currentVideoQuality, agg.worstQuality,
                       agg.maxPacketLoss, agg.maxRtt) = currentVideoQuality)
     => currentVideoQuality' = currentVideoQuality]_vars

\* C35: at every moment every RTCPeerConnection that is not closed is the one
\* peerConnections holds for its participant, so there is at most one open
\* connection per remote participant: createPeerConnection never replaces an
\* entry whose connection is still open.
C35_OpenConnectionIsMapped ==
  \A c \in connections : c.state # "closed" => c.mapped

\* C36: after the leave action participants and peerConnections stay empty:
\* no timer set before leaving and no late signaling message creates a
\* participant or a peer connection.
C36_EmptyAfterLeave ==
  ~localStream => (participants = {} /\ peerConnections = {})

\* C37: a delayed reconnect closes only the connection whose failure or
\* timeout triggered it: when the 15 s timer of an offer or the 3 s timer of a
\* failed connection fires, a connection it closes is the one the timer was
\* set for, never a newer one of the same participant.
C37_ReconnectClosesItsOwn ==
  [][\A t \in pendingCalls :
       (OfferTimeout(t) \/ ReconnectTimer(t)) =>
         \A c \in connections :
           (c.state # "closed" /\ [c EXCEPT !.state = "closed", !.mapped = FALSE] \in connections')
             => c.id = t.pc]_vars

\* C38: once a participant has left, it is no longer the active speaker after
\* the next active-speaker tick: in every state with the timer set, the value
\* a tick leaves in activeSpeaker is null or the id of a participant that is
\* in the participants map, also when the one that left was the last with a
\* tracked audio level.
C38_SpeakerIsParticipant ==
  activeSpeakerInterval =>
    \A order \in Orders(DOMAIN audioLevels) :
      \/ SpeakerAfterTick(order) = Null
      \/ \E p \in participants : SpeakerAfterTick(order) = Some(p)

\* C39: after any sequence of join-room, leave-room and socket close on the
\* signaling server, a connected user is in at most one room, user.room is r
\* exactly when the user's socket is in rooms[r], no room of the rooms map is
\* empty, and a socket that is closed (no longer in users) is in no room.
C39_MembershipConsistent ==
  /\ \A ws \in DOMAIN users :
       /\ Cardinality({r \in DOMAIN rooms : ws \in rooms[r]}) <= 1
       /\ \A r \in RoomIds :
            (users[ws] = Some(r)) <=> (r \in DOMAIN rooms /\ ws \in rooms[r])
  /\ \A r \in DOMAIN rooms : rooms[r] # {}
  /\ \A r \in DOMAIN rooms : \A ws \in rooms[r] :
       ws \in DOMAIN users /\ readyState[ws] # "closed"

\* C39 witness: the close of a socket has been handled and the socket is out
\* of the users map, another user is alone in room side, and no other room is
\* left in the rooms map.
C39_Witness ==
  \E ws \in DOMAIN readyState, other \in DOMAIN users :
    /\ readyState[ws] = "closed" /\ ws \notin DOMAIN users
    /\ users[other] = Some("side")
    /\ DOMAIN rooms = {"side"}
    /\ rooms["side"] = {other}
    /\ sent = {}

\* C40: a connection-failed message that a client sends for a target in its
\* room reaches the target: the handler run of the server sends it on to the
\* target's socket, as it does with offers.
C40_ConnectionFailedForwarded ==
  [][\A ws \in Sockets, target \in Sockets :
       (/\ target # ws
        /\ ServerMessage(ws, [type |-> "connection-failed", room |-> "", targetId |-> target])
        /\ target \in DOMAIN users /\ readyState[target] = "open"
        /\ users[ws] # Null /\ users[target] = users[ws])
       => \E m \in sent' : m.to = target /\ m.type = "connection-failed" /\ m.id = ws]_vars

====
